---- MODULE Spec2Model ----
(***************************************************************************)
(* State-machine model of the CRF engine (class CRF of src/src/ThaiUtils.js)*)
(* and of the ThaiSyllableSegmenter that owns one (src/src/                *)
(* FeatureExtractor.js).  One action per public method.                    *)
(*                                                                         *)
(* Numbers.  A Float64 is a fixed-point integer with SCALE units per 1.0;  *)
(* the non-finite values the code can produce (NaN, +Infinity, -Infinity)  *)
(* are kept as tagged records, see Num/NaN/PosInf/NegInf.                  *)
(* JavaScript's undefined / null are kept by tags, never by a number.      *)
(***************************************************************************)
EXTENDS Integers, Sequences, FiniteSets, TLC

----------------------------------------------------------------------------
(* Fixed-point Float64.                                                    *)

SCALE == 1000

\* tolerance is kept in units of 1e-6 (the default 1e-6 is 1 unit)
TOLSCALE == 1000000

Num(v) == [t |-> "num", v |-> v]
NaN == [t |-> "nan", v |-> 0]
PosInf == [t |-> "+inf", v |-> 0]
NegInf == [t |-> "-inf", v |-> 0]

\* a + b of IEEE-754
FAdd(a, b) ==
    IF a.t = "nan" \/ b.t = "nan" THEN NaN
    ELSE IF a.t = "num" /\ b.t = "num" THEN Num(a.v + b.v)
    ELSE IF a.t = "num" THEN b
    ELSE IF b.t = "num" THEN a
    ELSE IF a.t = b.t THEN a
    ELSE NaN

FNeg(a) ==
    IF a.t = "num" THEN Num(0 - a.v)
    ELSE IF a.t = "+inf" THEN NegInf
    ELSE IF a.t = "-inf" THEN PosInf
    ELSE NaN

FSub(a, b) == FAdd(a, FNeg(b))

\* Math.abs
FAbs(a) ==
    IF a.t = "num" THEN Num(IF a.v < 0 THEN 0 - a.v ELSE a.v)
    ELSE IF a.t = "nan" THEN NaN
    ELSE PosInf

\* a >= b of IEEE-754
FGe(a, b) ==
    IF a.t = "nan" \/ b.t = "nan" THEN FALSE
    ELSE IF a.t = "num" /\ b.t = "num" THEN a.v >= b.v
    ELSE IF a.t = "+inf" THEN TRUE
    ELSE IF a.t = "-inf" THEN b.t = "-inf"
    ELSE b.t # "+inf"

\* a > b of IEEE-754: false as soon as one side is NaN
FGt(a, b) ==
    IF a.t = "nan" \/ b.t = "nan" THEN FALSE
    ELSE IF a.t = "num" /\ b.t = "num" THEN a.v > b.v
    ELSE IF a.t = "+inf" THEN b.t # "+inf"
    ELSE IF a.t = "-inf" THEN FALSE
    ELSE b.t = "-inf"

\* Math.exp on a finite fixed-point number: the Taylor series of e^x, 12 terms,
\* e^(-x) as 1/e^x
RECURSIVE ExpSeries(_, _, _, _)
ExpSeries(x, k, term, acc) ==
    IF k > 12 \/ term = 0 THEN acc
    ELSE LET t == (term * x) \div (k * SCALE)
         IN  ExpSeries(x, k + 1, t, acc + t)

Exp(x) ==
    IF x >= 0 THEN ExpSeries(x, 1, SCALE, SCALE)
    ELSE (SCALE * SCALE) \div ExpSeries(0 - x, 1, SCALE, SCALE)

\* Math.log on a fixed-point number z >= 0: the y with Exp(y) <= z < Exp(y+1),
\* found by bisection; Math.log(0) is -Infinity
RECURSIVE LnSearch(_, _, _)
LnSearch(z, lo, hi) ==
    IF hi - lo <= 1 THEN lo
    ELSE LET mid == (lo + hi) \div 2
         IN  IF Exp(mid) <= z THEN LnSearch(z, mid, hi) ELSE LnSearch(z, lo, mid)

Log(z) ==
    IF z = 0 THEN NegInf
    ELSE Num(LnSearch(z, 0 - 8 * SCALE, 8 * SCALE))

\* an array filled element by element: the function, evaluated once, as a
\* sequence
Array(f) == f \o <<>>

----------------------------------------------------------------------------
(* JavaScript Map: the insertion-ordered sequence of its <<key, value>>    *)
(* entries, keys unique.                                                   *)

EmptyMap == <<>>

MapHas(map, key) == \E i \in 1..Len(map) : map[i][1] = key

\* Map.prototype.get as an option: <<value>>, or <<>> for undefined
MapGet(map, key) ==
    IF MapHas(map, key)
    THEN << map[CHOOSE i \in 1..Len(map) : map[i][1] = key][2] >>
    ELSE <<>>

\* Map.prototype.set: an existing key keeps its place and takes the new value
MapSet(map, key, value) ==
    IF MapHas(map, key)
    THEN Array([i \in 1..Len(map) |-> IF map[i][1] = key THEN <<key, value>> ELSE map[i]])
    ELSE Append(map, <<key, value>>)

\* new Map(entries)
RECURSIVE MapFromEntries(_, _)
MapFromEntries(entries, map) ==
    IF entries = <<>> THEN map
    ELSE MapFromEntries(Tail(entries), MapSet(map, Head(entries)[1], Head(entries)[2]))

----------------------------------------------------------------------------
(* Values of the CRF instance.                                             *)

\* this.weights: null, or a Float64Array with the given elements
Null == [kind |-> "null", data |-> <<>>]
Float64Array(data) == [kind |-> "f64", data |-> data]

\* the JavaScript value undefined where a label string is expected
Undefined == "undefined"

\* this.weights[idx], idx an option (<<>> is NaN: the index could not be
\* computed); an index outside the array reads undefined, which every use
\* adds to a number: NaN
WeightAt(self, idx) ==
    IF idx # <<>> /\ idx[1] >= 0 /\ idx[1] < Len(self.weights.data)
    THEN Num(self.weights.data[idx[1] + 1])
    ELSE NaN

\* featureIdx * this.numLabels + label, label an option (<<>> is undefined)
WeightIdx(self, featureIdx, label) ==
    IF label = <<>> THEN <<>> ELSE << featureIdx * self.numLabels + label[1] >>

\* _computeScore without the test of line 481: for a feature that is not in
\* featureMap the index is NaN and the element read is undefined
RECURSIVE _computeScoreUnguarded(_, _, _)
_computeScoreUnguarded(self, features, label) ==
    IF features = <<>> THEN Num(0)
    ELSE LET rest == _computeScoreUnguarded(self, SubSeq(features, 1, Len(features) - 1), label)
             featureIdx == MapGet(self.featureMap, features[Len(features)])
         IN  IF featureIdx # <<>>
             THEN FAdd(rest, WeightAt(self, WeightIdx(self, featureIdx[1], label)))
             ELSE FAdd(rest, NaN)

\* CRF._computeScore
RECURSIVE _computeScore(_, _, _)
_computeScore(self, features, label) ==
    IF features = <<>> THEN Num(0)
    ELSE LET rest == _computeScore(self, SubSeq(features, 1, Len(features) - 1), label)
             featureIdx == MapGet(self.featureMap, features[Len(features)])
         IN  IF featureIdx # <<>>
             THEN FAdd(rest, WeightAt(self, WeightIdx(self, featureIdx[1], label)))
             ELSE rest

\* `${label}` of a label id or of undefined
LabelText(label) == IF label = <<>> THEN "undefined" ELSE ToString(label[1])

\* _computeTransitionScore with the weight of the label the transition
\* leaves where line 498 takes that of the label it enters
_computeTransitionScoreOfFrom(self, fromLabel, toLabel) ==
    LET transitionFeature == "TRANS_" \o LabelText(fromLabel) \o "_" \o LabelText(toLabel)
        featureIdx == MapGet(self.featureMap, transitionFeature)
    IN  IF featureIdx # <<>>
        THEN WeightAt(self, WeightIdx(self, featureIdx[1], fromLabel))
        ELSE Num(0)

\* CRF._computeTransitionScore
_computeTransitionScore(self, fromLabel, toLabel) ==
    LET transitionFeature == "TRANS_" \o LabelText(fromLabel) \o "_" \o LabelText(toLabel)
        featureIdx == MapGet(self.featureMap, transitionFeature)
    IN  IF featureIdx # <<>>
        THEN WeightAt(self, WeightIdx(self, featureIdx[1], toLabel))
        ELSE Num(0)

----------------------------------------------------------------------------
(* CRF.predict: Viterbi.                                                   *)

\* the scan over k of lines 348-359, from k upward
RECURSIVE ViterbiScan(_, _, _, _, _, _, _)
ViterbiScan(self, prevRow, features, j, k, maxScore, bestPrev) ==
    IF k >= self.numLabels THEN [maxScore |-> maxScore, bestPrev |-> bestPrev]
    ELSE LET score == FAdd(FAdd(prevRow[k + 1], _computeTransitionScore(self, <<k>>, <<j>>)),
                           _computeScore(self, features, <<j>>))
         IN  IF FGt(score, maxScore)
             THEN ViterbiScan(self, prevRow, features, j, k + 1, score, k)
             ELSE ViterbiScan(self, prevRow, features, j, k + 1, maxScore, bestPrev)

\* dp[0]
ViterbiFirst(self, sequence) ==
    Array([j \in 1..self.numLabels |-> _computeScore(self, sequence[1], <<j - 1>>)])

\* rows dp[i], path[i] from dp[i-1]
ViterbiRow(self, prevRow, features) ==
    LET cell(j) == ViterbiScan(self, prevRow, features, j, 0, NegInf, 0)
        cells == Array([j \in 1..self.numLabels |-> cell(j - 1)])
    IN  [dp   |-> Array([j \in 1..self.numLabels |-> cells[j].maxScore]),
         path |-> Array([j \in 1..self.numLabels |-> cells[j].bestPrev])]

\* the forward pass: the sequence of rows [dp, path] for positions 1..i
RECURSIVE ViterbiForward(_, _, _)
ViterbiForward(self, sequence, i) ==
    IF i = 1
    THEN << [dp |-> ViterbiFirst(self, sequence),
             path |-> Array([j \in 1..self.numLabels |-> 0])] >>
    ELSE LET rows == ViterbiForward(self, sequence, i - 1)
         IN  Append(rows, ViterbiRow(self, rows[i - 1].dp, sequence[i]))

\* lines 367-368 without the loop of 369-374: the final state stays 0
BestFinalFirst(self, lastRow, j, bestFinal, bestScore) == bestFinal

\* lines 367-374: the best final state, from j upward
RECURSIVE BestFinal(_, _, _, _, _)
BestFinal(self, lastRow, j, bestFinal, bestScore) ==
    IF j >= self.numLabels THEN bestFinal
    ELSE IF FGt(lastRow[j + 1], bestScore)
         THEN BestFinal(self, lastRow, j + 1, j, lastRow[j + 1])
         ELSE BestFinal(self, lastRow, j + 1, bestFinal, bestScore)

\* lines 377-382: result[i] for position i (1-based), an option: reading
\* path[i+1] outside 0..numLabels-1 gives undefined
RECURSIVE Backtrack(_, _, _, _)
Backtrack(self, rows, i, bestFinal) ==
    IF i = Len(rows) THEN <<bestFinal>>
    ELSE LET next == Backtrack(self, rows, i + 1, bestFinal)
         IN  IF next # <<>> /\ next[1] >= 0 /\ next[1] < self.numLabels
             THEN << rows[i + 1].path[next[1] + 1] >>
             ELSE <<>>

\* entries sorted by id, stable (Array.prototype.sort with a[1] - b[1])
RECURSIVE SortById(_)
SortById(entries) ==
    IF entries = <<>> THEN <<>>
    ELSE LET sorted == SortById(SubSeq(entries, 1, Len(entries) - 1))
             e == entries[Len(entries)]
             before == SelectSeq(sorted, LAMBDA x : x[2] <= e[2])
             after == SelectSeq(sorted, LAMBDA x : x[2] > e[2])
         IN  before \o <<e>> \o after

\* labelNames[idx]
LabelName(self, idx) ==
    LET labelNames == SortById(self.labelMap)
    IN  IF idx # <<>> /\ idx[1] >= 0 /\ idx[1] < Len(labelNames)
        THEN labelNames[idx[1] + 1][1]
        ELSE Undefined

\* number of _computeScore and _computeTransitionScore calls of one predict
ScoreCalls(self, n) ==
    self.numLabels + (n - 1) * self.numLabels * self.numLabels * 2

\* lines 336-389 of predict, for a sequence of length n >= 1
Viterbi(self, sequence) ==
    LET n == Len(sequence)
        rows == ViterbiForward(self, sequence, n)
        bestScore == IF self.numLabels >= 1 THEN rows[n].dp[1] ELSE NaN
        bestFinal == BestFinal(self, rows[n].dp, 1, 0, bestScore)
    IN  [outcome |-> "ok",
         ret |-> Array([i \in 1..n |-> LabelName(self, Backtrack(self, rows, i, bestFinal))]),
         scoreCalls |-> ScoreCalls(self, n)]

\* predict without line 334: dp[n - 1] is undefined for n = 0, and reading
\* its element 0 throws
predictWithoutEmptyCheck(self, sequence) ==
    IF self.weights.kind = "null" \/ Len(sequence) = 0
    THEN [outcome |-> "error", ret |-> <<>>, scoreCalls |-> 0]
    ELSE Viterbi(self, sequence)

\* CRF.predict: [outcome, ret, scoreCalls]
predict(self, sequence) ==
    IF self.weights.kind = "null"
    THEN [outcome |-> "error", ret |-> <<>>, scoreCalls |-> 0]
    ELSE IF Len(sequence) = 0
    THEN [outcome |-> "ok", ret |-> <<>>, scoreCalls |-> 0]
    ELSE Viterbi(self, sequence)

----------------------------------------------------------------------------
(* CRF.train and its helpers.                                              *)

RECURSIVE Flatten(_)
Flatten(seqs) == IF seqs = <<>> THEN <<>> ELSE Head(seqs) \o Flatten(Tail(seqs))

\* the loops of lines 403-409 and 412-420 with the index incremented for
\* every item, also for one that is in the map already
RECURSIVE BuildMapCountingAll(_, _, _)
BuildMapCountingAll(items, map, idx) ==
    IF items = <<>> THEN [map |-> map, idx |-> idx]
    ELSE IF MapHas(map, Head(items))
         THEN BuildMapCountingAll(Tail(items), map, idx + 1)
         ELSE BuildMapCountingAll(Tail(items), MapSet(map, Head(items), idx), idx + 1)

\* the loops of lines 403-409 and 412-420 over the items in corpus order:
\* an item not yet in the map takes the next index
RECURSIVE BuildMap(_, _, _)
BuildMap(items, map, idx) ==
    IF items = <<>> THEN [map |-> map, idx |-> idx]
    ELSE IF MapHas(map, Head(items))
         THEN BuildMap(Tail(items), map, idx)
         ELSE BuildMap(Tail(items), MapSet(map, Head(items), idx), idx + 1)

\* a feature string for every pair of label ids
TransitionItems(n) ==
    Array([p \in 1..(n * n) |->
        "TRANS_" \o ToString((p - 1) \div n) \o "_" \o ToString((p - 1) % n)])

\* _buildMappings of a CRF that gives every transition a feature of its own
_buildMappingsWithTransitions(self, sequences, labels) ==
    LET l == BuildMap(Flatten(labels), EmptyMap, 0)
        f == BuildMap(Flatten(Flatten(sequences)) \o TransitionItems(l.idx), EmptyMap, 0)
    IN  [self EXCEPT !.featureMap = f.map, !.labelMap = l.map,
                     !.numFeatures = f.idx, !.numLabels = l.idx]

\* CRF._buildMappings
_buildMappings(self, sequences, labels) ==
    LET l == BuildMap(Flatten(labels), EmptyMap, 0)
        f == BuildMap(Flatten(Flatten(sequences)), EmptyMap, 0)
    IN  [self EXCEPT !.featureMap = f.map, !.labelMap = l.map,
                     !.numFeatures = f.idx, !.numLabels = l.idx]

\* Math.exp(transition + emission); both finite in train, where _buildMappings
\* has made featureMap, numLabels and weights.length consistent
ExpScore(self, from, to, features) ==
    Exp(FAdd(_computeTransitionScore(self, <<from>>, <<to>>),
             _computeScore(self, features, <<to>>)).v)

RECURSIVE SumSeq(_)
SumSeq(s) == IF s = <<>> THEN 0 ELSE Head(s) + SumSeq(Tail(s))

\* alpha[0..i-1] (rows of numLabels fixed-point numbers)
RECURSIVE Alpha(_, _, _)
Alpha(self, sequence, i) ==
    IF i = 1
    THEN << Array([j \in 1..self.numLabels |-> Exp(_computeScore(self, sequence[1], <<j - 1>>).v)]) >>
    ELSE LET rows == Alpha(self, sequence, i - 1)
             prev == rows[i - 1]
             cell(j) == SumSeq(Array([k \in 1..self.numLabels |->
                          (prev[k] * ExpScore(self, k - 1, j, sequence[i])) \div SCALE]))
         IN  Append(rows, Array([j \in 1..self.numLabels |-> cell(j - 1)]))

\* Beta with the emission score of position i where line 463 takes that of
\* position i + 1
RECURSIVE BetaOwnPosition(_, _, _)
BetaOwnPosition(self, sequence, i) ==
    IF i = Len(sequence)
    THEN << Array([j \in 1..self.numLabels |-> SCALE]) >>
    ELSE LET rows == BetaOwnPosition(self, sequence, i + 1)
             next == rows[1]
             cell(j) == SumSeq(Array([k \in 1..self.numLabels |->
                          (next[k] * ExpScore(self, j, k - 1, sequence[i])) \div SCALE]))
         IN  << Array([j \in 1..self.numLabels |-> cell(j - 1)]) >> \o rows

\* beta[i-1..n-1], built from the last row backward
RECURSIVE Beta(_, _, _)
Beta(self, sequence, i) ==
    IF i = Len(sequence)
    THEN << Array([j \in 1..self.numLabels |-> SCALE]) >>
    ELSE LET rows == Beta(self, sequence, i + 1)
             next == rows[1]
             cell(j) == SumSeq(Array([k \in 1..self.numLabels |->
                          (next[k] * ExpScore(self, j, k - 1, sequence[i + 1])) \div SCALE]))
         IN  << Array([j \in 1..self.numLabels |-> cell(j - 1)]) >> \o rows

\* CRF._forwardBackward; an empty sequence makes it throw a TypeError
\* (alpha[0] and alpha[n-1] are undefined)
_forwardBackward(self, sequence) ==
    IF Len(sequence) = 0
    THEN [threw |-> TRUE, alpha |-> <<>>, beta |-> <<>>, Z |-> 0]
    ELSE LET alpha == Alpha(self, sequence, Len(sequence))
             last == alpha[Len(sequence)]
         IN  [threw |-> FALSE, alpha |-> alpha, beta |-> Beta(self, sequence, 1),
              Z |-> SumSeq(last)]

\* this.labelMap.get(labels[0]) whatever the position
LabelIdxAtFirst(self, labels, i) ==
    IF 1 <= Len(labels) THEN MapGet(self.labelMap, labels[1]) ELSE <<>>

\* this.labelMap.get(labels[i]) for the 1-based position i: undefined when
\* labels is shorter than the sequence
LabelIdxAt(self, labels, i) ==
    IF i <= Len(labels) THEN MapGet(self.labelMap, labels[i]) ELSE <<>>

\* the sum of lines 511-519 over positions 1..i
RECURSIVE PathScore(_, _, _, _)
PathScore(self, sequence, labels, i) ==
    IF i = 0 THEN Num(0)
    ELSE LET labelIdx == LabelIdxAt(self, labels, i)
             emit == FAdd(PathScore(self, sequence, labels, i - 1),
                          _computeScore(self, sequence[i], labelIdx))
         IN  IF i > 1
             THEN FAdd(emit, _computeTransitionScore(self, LabelIdxAt(self, labels, i - 1), labelIdx))
             ELSE emit

\* CRF._computeSequenceLogLikelihood
_computeSequenceLogLikelihood(self, sequence, labels, Z) ==
    FSub(PathScore(self, sequence, labels, Len(sequence)), Log(Z))

\* gradients[weightIdx] += delta for every feature of the position that is in
\* featureMap; an undefined label gives the index NaN, which a Float64Array
\* ignores
RECURSIVE AddForFeatures(_, _, _, _, _)
AddForFeatures(self, features, label, delta, gradients) ==
    IF features = <<>> THEN gradients
    ELSE LET featureIdx == MapGet(self.featureMap, Head(features))
             weightIdx == IF featureIdx = <<>> THEN <<>>
                          ELSE WeightIdx(self, featureIdx[1], label)
             g == IF weightIdx # <<>> /\ weightIdx[1] >= 0 /\ weightIdx[1] < Len(gradients)
                  THEN [gradients EXCEPT ![weightIdx[1] + 1] = @ + delta]
                  ELSE gradients
         IN  AddForFeatures(self, Tail(features), label, delta, g)

\* lines 534-544 of position i: the marginals of labels j..numLabels-1
RECURSIVE SubtractMarginals(_, _, _, _, _, _)
SubtractMarginals(self, features, alphaRow, betaRow, Z, jg) ==
    IF jg.j >= self.numLabels THEN jg.gradients
    ELSE LET marginal == (alphaRow[jg.j + 1] * betaRow[jg.j + 1]) \div Z
         IN  SubtractMarginals(self, features, alphaRow, betaRow, Z,
                 [j |-> jg.j + 1,
                  gradients |-> AddForFeatures(self, features, <<jg.j>>, 0 - marginal, jg.gradients)])

\* CRF._updateGradients, positions i..n
RECURSIVE _updateGradients(_, _, _, _, _, _)
_updateGradients(self, sequence, labels, fb, i, gradients) ==
    IF i > Len(sequence) THEN gradients
    ELSE LET labelIdx == LabelIdxAt(self, labels, i)
             expected == SubtractMarginals(self, sequence[i], fb.alpha[i], fb.beta[i], fb.Z,
                                           [j |-> 0, gradients |-> gradients])
             counted == AddForFeatures(self, sequence[i], labelIdx, SCALE, expected)
         IN  _updateGradients(self, sequence, labels, fb, i + 1, counted)

\* the loop of lines 284-296 from sequence i on; labels[i] is undefined when
\* there are fewer label sequences than sequences, and reading labels[0] of
\* undefined throws
RECURSIVE ProcessSequences(_, _, _, _, _)
ProcessSequences(self, sequences, labels, i, acc) ==
    IF i > Len(sequences) THEN acc
    ELSE LET fb == _forwardBackward(self, sequences[i])
         IN  IF fb.threw \/ i > Len(labels)
             THEN [acc EXCEPT !.threw = TRUE]
             ELSE ProcessSequences(self, sequences, labels, i + 1,
                    [threw |-> FALSE,
                     logLikelihood |-> FAdd(acc.logLikelihood,
                         _computeSequenceLogLikelihood(self, sequences[i], labels[i], fb.Z)),
                     gradients |-> _updateGradients(self, sequences[i], labels[i], fb, 1,
                                                    acc.gradients)])

\* lines 299-302: the L2 penalty on the log-likelihood
RECURSIVE Penalty(_, _)
Penalty(self, j) ==
    IF j = 0 THEN 0
    ELSE Penalty(self, j - 1)
         + (self.regularization * self.weights.data[j] * self.weights.data[j])
              \div (2 * SCALE * SCALE)

\* the test of line 312 never met (the loop without its break)
ConvergedNever(self, logLikelihood, prevLogLikelihood) == FALSE

\* Math.abs(logLikelihood - prevLogLikelihood) < this.tolerance
Converged(self, logLikelihood, prevLogLikelihood) ==
    LET d == FAbs(FSub(logLikelihood, prevLogLikelihood))
    IN  d.t = "num" /\ d.v * (TOLSCALE \div SCALE) < self.tolerance

\* the loop of lines 284-296 with the weights updated after every sequence,
\* from sequence i on: [threw, self, logLikelihood]
RECURSIVE OnlinePass(_, _, _, _)
OnlinePass(self, sequences, labels, i) ==
    IF i > Len(sequences) THEN [threw |-> FALSE, self |-> self, logLikelihood |-> Num(0)]
    ELSE LET fb == _forwardBackward(self, sequences[i])
             w == self.weights.data
             g == _updateGradients(self, sequences[i], labels[i], fb, 1,
                                   Array([j \in 1..Len(w) |-> 0]))
             next == [self EXCEPT !.weights = Float64Array(Array(
                         [j \in 1..Len(w) |-> w[j] + (self.learningRate * g[j]) \div SCALE]))]
             rest == OnlinePass(next, sequences, labels, i + 1)
         IN  IF fb.threw \/ i > Len(labels)
             THEN [threw |-> TRUE, self |-> self, logLikelihood |-> Num(0)]
             ELSE [rest EXCEPT !.logLikelihood =
                     FAdd(_computeSequenceLogLikelihood(self, sequences[i], labels[i], fb.Z), @)]

\* the loop of lines 279-318 with OnlinePass for the loop over the sequences
\* and the regularization applied to the weights it leaves
RECURSIVE TrainLoopOnline(_, _, _, _, _)
TrainLoopOnline(self, sequences, labels, iter, logLikelihoods) ==
    IF iter >= self.maxIterations
    THEN [outcome |-> "ok", self |-> self, logLikelihoods |-> logLikelihoods]
    ELSE LET pass == OnlinePass(self, sequences, labels, 1)
             w == pass.self.weights.data
             logLikelihood == FSub(pass.logLikelihood, Num(Penalty(pass.self, Len(w))))
             updated == [self EXCEPT !.weights = Float64Array(Array(
                             [j \in 1..Len(w) |->
                                 w[j] - (self.learningRate * ((self.regularization * w[j]) \div SCALE))
                                           \div SCALE]))]
             prevLogLikelihood == IF logLikelihoods = <<>> THEN NegInf
                                  ELSE logLikelihoods[Len(logLikelihoods)]
         IN  IF pass.threw
             THEN [outcome |-> "error", self |-> pass.self, logLikelihoods |-> logLikelihoods]
             ELSE IF Converged(self, logLikelihood, prevLogLikelihood)
             THEN [outcome |-> "ok", self |-> updated,
                   logLikelihoods |-> Append(logLikelihoods, logLikelihood)]
             ELSE TrainLoopOnline(updated, sequences, labels, iter + 1,
                                  Append(logLikelihoods, logLikelihood))

\* prevLogLikelihood starting at 0 where line 277 starts it at -Infinity
PrevLogLikelihoodFromZero(logLikelihoods) ==
    IF logLikelihoods = <<>> THEN Num(0) ELSE logLikelihoods[Len(logLikelihoods)]

\* prevLogLikelihood: -Infinity before the first iteration, then the
\* log-likelihood of the iteration before
PrevLogLikelihood(logLikelihoods) ==
    IF logLikelihoods = <<>> THEN NegInf ELSE logLikelihoods[Len(logLikelihoods)]

\* the body of the loop of lines 279-318, once, on the state of the loop:
\* [outcome, self, logLikelihoods], outcome "running" while the loop goes on,
\* "error" after a throw, "ok" after the break of line 314; logLikelihoods
\* are the values line 309 logs, one for each iteration that was completed
TrainIteration(st, sequences, labels) ==
    LET self == st.self
        w == self.weights.data
        pass == ProcessSequences(self, sequences, labels, 1,
                   [threw |-> FALSE, logLikelihood |-> Num(0),
                    gradients |-> Array([j \in 1..Len(w) |-> 0])])
        logLikelihood == FSub(pass.logLikelihood, Num(Penalty(self, Len(w))))
        gradients == Array([j \in 1..Len(w) |->
                        pass.gradients[j] - (self.regularization * w[j]) \div SCALE])
        updated == [self EXCEPT !.weights = Float64Array(Array(
                        [j \in 1..Len(w) |-> w[j] + (self.learningRate * gradients[j]) \div SCALE]))]
    IN  IF pass.threw
        THEN [st EXCEPT !.outcome = "error"]
        ELSE [outcome |-> IF Converged(self, logLikelihood, PrevLogLikelihood(st.logLikelihoods))
                          THEN "ok" ELSE "running",
              self |-> updated,
              logLikelihoods |-> Append(st.logLikelihoods, logLikelihood)]

\* up to k iterations while the loop goes on, the first half of them and
\* then the rest
RECURSIVE TrainIterations(_, _, _, _)
TrainIterations(st, sequences, labels, k) ==
    IF st.outcome # "running" \/ k <= 0 THEN st
    ELSE IF k = 1 THEN TrainIteration(st, sequences, labels)
    ELSE TrainIterations(TrainIterations(st, sequences, labels, k \div 2),
                         sequences, labels, k - k \div 2)

\* the loop of lines 279-318 from iteration iter on: [outcome, self,
\* logLikelihoods]; the parameter logLikelihoods holds those of the
\* iterations before iter.  Leaving the loop at the cap is a normal return.
TrainLoop(self, sequences, labels, iter, logLikelihoods) ==
    LET st == TrainIterations([outcome |-> "running", self |-> self,
                               logLikelihoods |-> logLikelihoods],
                              sequences, labels, self.maxIterations - iter)
    IN  [st EXCEPT !.outcome = IF @ = "running" THEN "ok" ELSE @]

\* train that goes on from the weights it finds when their number fits the
\* new vocabularies
trainWarmStart(self, sequences, labels) ==
    LET mapped == _buildMappings(self, sequences, labels)
        n == mapped.numFeatures * mapped.numLabels
        started == [mapped EXCEPT !.weights =
                      IF self.weights.kind = "f64" /\ Len(self.weights.data) = n
                      THEN self.weights
                      ELSE Float64Array(Array([j \in 1..n |-> 0]))]
    IN  TrainLoop(started, sequences, labels, 0, <<>>)

\* CRF.train: [outcome, self, logLikelihoods]
train(self, sequences, labels) ==
    LET mapped == _buildMappings(self, sequences, labels)
        zeroed == [mapped EXCEPT !.weights =
                     Float64Array(Array([j \in 1..(mapped.numFeatures * mapped.numLabels) |-> 0]))]
    IN  TrainLoop(zeroed, sequences, labels, 0, <<>>)

----------------------------------------------------------------------------
(* CRF constructor, saveModel, loadModel.                                  *)

\* the defaults of the constructor: 0.1, 100, 0.01 (SCALE units), 1e-6
\* (TOLSCALE units)
DefaultLearningRate == 100
DefaultMaxIterations == 100
DefaultRegularization == 10
DefaultTolerance == 1

\* options.x || dflt, the option x being <<>> (omitted) or <<value>>
OrDefault(option, dflt) ==
    IF option = <<>> \/ option[1] = 0 THEN dflt ELSE option[1]

\* new CRF(options)
NewCRF(options) ==
    [learningRate   |-> OrDefault(options.learningRate, DefaultLearningRate),
     maxIterations  |-> OrDefault(options.maxIterations, DefaultMaxIterations),
     regularization |-> OrDefault(options.regularization, DefaultRegularization),
     tolerance      |-> OrDefault(options.tolerance, DefaultTolerance),
     weights        |-> Null,
     featureMap     |-> EmptyMap,
     labelMap       |-> EmptyMap,
     numFeatures    |-> 0,
     numLabels      |-> 0]

\* The value saveModel returns and loadModel takes.  object = FALSE is a
\* modelData that is undefined or null; a field that may be missing has
\* has = FALSE (weights, config) or kind = "missing" (the two entry lists,
\* which may also hold a value that is not iterable, kind = "number").
NoConfig ==
    [has |-> FALSE, learningRate |-> 0, maxIterations |-> 0,
     regularization |-> 0, tolerance |-> 0]

NoData ==
    [object |-> FALSE,
     weights |-> [has |-> FALSE, v |-> <<>>],
     featureMap |-> [kind |-> "missing", v |-> <<>>],
     labelMap |-> [kind |-> "missing", v |-> <<>>],
     numFeatures |-> 0, numLabels |-> 0,
     config |-> NoConfig]

\* the object of lines 561-573
ModelDataOf(self) ==
    [object |-> TRUE,
     weights |-> [has |-> TRUE, v |-> self.weights.data],
     featureMap |-> [kind |-> "entries", v |-> self.featureMap],
     labelMap |-> [kind |-> "entries", v |-> self.labelMap],
     numFeatures |-> self.numFeatures,
     numLabels |-> self.numLabels,
     config |-> [has |-> TRUE,
                 learningRate |-> self.learningRate,
                 maxIterations |-> self.maxIterations,
                 regularization |-> self.regularization,
                 tolerance |-> self.tolerance]]

\* saveModel with Array.from(this.weights || []): null weights are saved as
\* an empty array
saveModelOfNothing(self) == [outcome |-> "ok", ret |-> ModelDataOf(self)]

\* CRF.saveModel: [outcome, ret]; Array.from(null) throws a TypeError
saveModel(self) ==
    IF self.weights.kind = "null"
    THEN [outcome |-> "error", ret |-> NoData]
    ELSE [outcome |-> "ok", ret |-> ModelDataOf(self)]

\* new Map(x): undefined gives an empty Map, a number throws a TypeError
NewMap(field) == IF field.kind = "entries" THEN MapFromEntries(field.v, EmptyMap) ELSE EmptyMap

\* lines 586-591 with the defaults taken when there is no config
LoadConfigOrDefaults(self, config) ==
    IF config.has
    THEN [self EXCEPT !.learningRate = config.learningRate,
                      !.maxIterations = config.maxIterations,
                      !.regularization = config.regularization,
                      !.tolerance = config.tolerance]
    ELSE [self EXCEPT !.learningRate = DefaultLearningRate,
                      !.maxIterations = DefaultMaxIterations,
                      !.regularization = DefaultRegularization,
                      !.tolerance = DefaultTolerance]

\* lines 586-591
LoadConfig(self, config) ==
    IF config.has
    THEN [self EXCEPT !.learningRate = config.learningRate,
                      !.maxIterations = config.maxIterations,
                      !.regularization = config.regularization,
                      !.tolerance = config.tolerance]
    ELSE self

\* lines 580-584 in order, up to the first that throws: [outcome, self]
LoadFields(self, modelData, withLabelMap, withCounts) ==
    LET s1 == [self EXCEPT !.weights =
                  Float64Array(IF modelData.weights.has THEN modelData.weights.v ELSE <<>>)]
        s2 == [s1 EXCEPT !.featureMap = NewMap(modelData.featureMap)]
        s3 == IF withLabelMap THEN [s2 EXCEPT !.labelMap = NewMap(modelData.labelMap)] ELSE s2
        s4 == IF withCounts
              THEN [s3 EXCEPT !.numFeatures = modelData.numFeatures,
                              !.numLabels = modelData.numLabels]
              ELSE s3
    IN  IF ~modelData.object THEN [outcome |-> "error", self |-> self]
        ELSE IF modelData.featureMap.kind = "number" THEN [outcome |-> "error", self |-> s1]
        ELSE IF modelData.labelMap.kind = "number" THEN [outcome |-> "error", self |-> s2]
        ELSE [outcome |-> "ok", self |-> LoadConfig(s4, modelData.config)]

\* loadModel without lines 583-584
loadModelKeepsCounts(self, modelData) == LoadFields(self, modelData, TRUE, FALSE)

\* loadModel without line 582
loadModelKeepsLabelMap(self, modelData) == LoadFields(self, modelData, FALSE, TRUE)

\* CRF.loadModel: [outcome, self]; the assignments are made in the order of
\* lines 580-584, so a throw keeps those already made
loadModel(self, modelData) == LoadFields(self, modelData, TRUE, TRUE)

----------------------------------------------------------------------------
(* ThaiUtils and FeatureExtractor, as far as the segmenter uses them.  A   *)
(* text is the sequence of its UTF-16 code units; a character of           *)
(* splitToCharacters is a non-empty sequence of code units.                *)

KO_KAI == 3585
NO_NU == 3609
SARA_I == 3636
ZWSP == 8203
SPACE == 32

\* ThaiUtils.isCombiningMark: 0x0E31-0x0E3A and 0x0E47-0x0E4E
isCombiningMark(code) ==
    (code >= 3633 /\ code <= 3642) \/ (code >= 3655 /\ code <= 3662)

\* the characters U+200B-U+200F, U+2060 and U+FEFF that normalize removes
IsZeroWidth(code) == (code >= 8203 /\ code <= 8207) \/ code = 8288 \/ code = 65279

\* ThaiUtils.normalize; NFC leaves the code units of the alphabet used here
\* as they are
normalize(text) == SelectSeq(text, LAMBDA code : ~IsZeroWidth(code))

\* ThaiUtils.splitToCharacters, the characters collected so far in chars
RECURSIVE SplitFrom(_, _)
SplitFrom(text, chars) ==
    IF text = <<>> THEN chars
    ELSE IF chars # <<>> /\ isCombiningMark(Head(text))
         THEN SplitFrom(Tail(text),
                        [chars EXCEPT ![Len(chars)] = Append(@, Head(text))])
         ELSE SplitFrom(Tail(text), Append(chars, <<Head(text)>>))

splitToCharacters(text) == SplitFrom(text, <<>>)

\* `${char}`: the text of a character, one code unit after the other
RECURSIVE CharText(_)
CharText(char) ==
    IF char = <<>> THEN "" ELSE "u" \o ToString(Head(char)) \o CharText(Tail(char))

BoolText(b) == IF b THEN "true" ELSE "false"

\* FeatureExtractor.extractFeatures: the features CHAR, IS_FIRST and IS_LAST
\* (pos is 1-based here)
extractFeatures(chars, pos) ==
    << "CHAR=" \o CharText(chars[pos]),
       "IS_FIRST=" \o BoolText(pos = 1),
       "IS_LAST=" \o BoolText(pos = Len(chars)) >>

\* FeatureExtractor.extractSequenceFeatures
extractSequenceFeatures(text) ==
    LET chars == splitToCharacters(normalize(text))
    IN  [features |-> Array([i \in 1..Len(chars) |-> extractFeatures(chars, i)]),
         chars |-> chars]

----------------------------------------------------------------------------
(* ThaiSyllableSegmenter helpers.                                          *)

\* LabelChars with the test `charIndex === 0` where line 586 has `j === 0`:
\* only the first character of the text is labelled B
RECURSIVE LabelCharsFirstOnly(_, _, _)
LabelCharsFirstOnly(chars, marked, labels) ==
    IF marked = <<>>
    THEN [threw |-> FALSE,
          labels |-> labels \o Array([i \in 1..(Len(chars) - Len(labels)) |-> "I"])]
    ELSE IF Len(labels) >= Len(chars) THEN [threw |-> TRUE, labels |-> <<>>]
    ELSE IF chars[Len(labels) + 1] # Head(marked).char THEN [threw |-> TRUE, labels |-> <<>>]
    ELSE LabelCharsFirstOnly(chars, Tail(marked),
                             Append(labels, IF Len(labels) = 0 THEN "B" ELSE "I"))

\* ThaiSyllableSegmenter._syllablesToLabels over the characters of all
\* syllables in order (first = TRUE for the first character of a syllable):
\* [threw, labels]
RECURSIVE LabelChars(_, _, _)
LabelChars(chars, marked, labels) ==
    IF marked = <<>>
    THEN [threw |-> FALSE,
          labels |-> labels \o Array([i \in 1..(Len(chars) - Len(labels)) |-> "I"])]
    ELSE IF Len(labels) >= Len(chars) THEN [threw |-> TRUE, labels |-> <<>>]
    ELSE IF chars[Len(labels) + 1] # Head(marked).char THEN [threw |-> TRUE, labels |-> <<>>]
    ELSE LabelChars(chars, Tail(marked),
                    Append(labels, IF Head(marked).first THEN "B" ELSE "I"))

\* the characters of a syllable, the first one marked
MarkSyllable(syllable) ==
    LET syllableChars == splitToCharacters(syllable)
    IN  Array([j \in 1..Len(syllableChars) |-> [char |-> syllableChars[j], first |-> j = 1]])

_syllablesToLabels(chars, syllables) ==
    LabelChars(chars, Flatten(Array([i \in 1..Len(syllables) |-> MarkSyllable(syllables[i])])), <<>>)

\* ThaiSyllableSegmenter._prepareTrainingSample: [ok, features, labelSeq],
\* ok = FALSE for the sample of nulls
_prepareTrainingSample(text, syllables) ==
    LET extracted == extractSequenceFeatures(normalize(text))
        labelled == _syllablesToLabels(extracted.chars, syllables)
    IN  IF labelled.threw \/ Len(labelled.labels) # Len(extracted.chars)
        THEN [ok |-> FALSE, features |-> <<>>, labelSeq |-> <<>>]
        ELSE [ok |-> TRUE, features |-> extracted.features, labelSeq |-> labelled.labels]

\* lines 378-388: the prepared samples that are kept
RECURSIVE PrepareAll(_)
PrepareAll(trainingData) ==
    IF trainingData = <<>> THEN [sequences |-> <<>>, labels |-> <<>>]
    ELSE LET sample == _prepareTrainingSample(Head(trainingData).text, Head(trainingData).syllables)
             rest == PrepareAll(Tail(trainingData))
         IN  IF sample.ok
             THEN [sequences |-> <<sample.features>> \o rest.sequences,
                   labels |-> <<sample.labelSeq>> \o rest.labels]
             ELSE rest

\* _labelsToSyllables without lines 627-630: the syllable that is open when
\* the characters end is not pushed
RECURSIVE _labelsToSyllablesWithoutLast(_, _, _, _, _)
_labelsToSyllablesWithoutLast(chars, labels, i, syllables, currentSyllable) ==
    IF i > Len(chars) THEN syllables
    ELSE IF labels[i] = "B"
         THEN _labelsToSyllablesWithoutLast(chars, labels, i + 1,
                  IF currentSyllable # <<>> THEN Append(syllables, currentSyllable) ELSE syllables,
                  chars[i])
         ELSE _labelsToSyllablesWithoutLast(chars, labels, i + 1, syllables,
                                            currentSyllable \o chars[i])

\* ThaiSyllableSegmenter._labelsToSyllables, positions i..n, the syllables
\* pushed so far and the current one (the empty string is falsy)
RECURSIVE _labelsToSyllables(_, _, _, _, _)
_labelsToSyllables(chars, labels, i, syllables, currentSyllable) ==
    IF i > Len(chars)
    THEN IF currentSyllable # <<>> THEN Append(syllables, currentSyllable) ELSE syllables
    ELSE IF labels[i] = "B"
         THEN _labelsToSyllables(chars, labels, i + 1,
                  IF currentSyllable # <<>> THEN Append(syllables, currentSyllable) ELSE syllables,
                  chars[i])
         ELSE _labelsToSyllables(chars, labels, i + 1, syllables, currentSyllable \o chars[i])

\* text.trim(): the white space of the alphabet used here is the space and
\* U+FEFF
IsWhiteSpace(code) == code = SPACE \/ code = 65279

RECURSIVE TrimStart(_)
TrimStart(text) ==
    IF text # <<>> /\ IsWhiteSpace(Head(text)) THEN TrimStart(Tail(text)) ELSE text

RECURSIVE TrimEnd(_)
TrimEnd(text) ==
    IF text # <<>> /\ IsWhiteSpace(text[Len(text)])
    THEN TrimEnd(SubSeq(text, 1, Len(text) - 1)) ELSE text

trim(text) == TrimEnd(TrimStart(text))

----------------------------------------------------------------------------
(* The state: one ThaiSyllableSegmenter and the CRF it owns, the value the *)
(* caller keeps from the last CRF.saveModel, the model file, and the last  *)
(* call with its outcome.                                                  *)

VARIABLES
    weights, featureMap, labelMap, numFeatures, numLabels,      \* CRF fields
    learningRate, maxIterations, regularization, tolerance,     \* CRF fields
    isModelLoaded,                                              \* segmenter field
    saved,      \* the last value CRF.saveModel returned, and the CRF it was taken from
    file,       \* the model file ThaiSyllableSegmenter.saveModel writes
    call,       \* the last call: operation, input, outcome, returned value
    succeeded   \* a train or loadModel call has completed on this instance

crfVars == <<weights, featureMap, labelMap, numFeatures, numLabels,
             learningRate, maxIterations, regularization, tolerance>>

vars == <<crfVars, isModelLoaded, saved, file, call, succeeded>>

\* the CRF instance as a record
This ==
    [weights |-> weights, featureMap |-> featureMap, labelMap |-> labelMap,
     numFeatures |-> numFeatures, numLabels |-> numLabels,
     learningRate |-> learningRate, maxIterations |-> maxIterations,
     regularization |-> regularization, tolerance |-> tolerance]

SetThis(self) ==
    /\ weights' = self.weights
    /\ featureMap' = self.featureMap
    /\ labelMap' = self.labelMap
    /\ numFeatures' = self.numFeatures
    /\ numLabels' = self.numLabels
    /\ learningRate' = self.learningRate
    /\ maxIterations' = self.maxIterations
    /\ regularization' = self.regularization
    /\ tolerance' = self.tolerance

----------------------------------------------------------------------------
(* Inputs.                                                                 *)

\* longest sequence given to predict
MaxLen == 2

\* largest iteration cap given to the constructor
MaxIter == 3

Omitted == <<>>

\* new CRF()
NoOptions ==
    [learningRate |-> Omitted, maxIterations |-> Omitted,
     regularization |-> Omitted, tolerance |-> Omitted]

\* constructor options: the learning rate 0.5 of the end-to-end example and
\* an iteration cap, the other two omitted
OptionSets ==
    { [learningRate |-> <<500>>, maxIterations |-> <<MaxIter>>,
       regularization |-> Omitted, tolerance |-> Omitted] }

\* training inputs (sequences, labels) of CRF.train
Corpora ==
    << \* 1: no example at all
       [sequences |-> <<>>, labels |-> <<>>],
       \* 2: the end-to-end example
       [sequences |-> << << <<"F1">>, <<"F2">> >> >>, labels |-> << <<"B", "I">> >>],
       \* 3: two examples, one label, a repeated feature
       [sequences |-> << << <<"F1", "F2">> >>, << <<"F2">> >> >>,
        labels |-> << <<"B">>, <<"B">> >>],
       \* 4: an example of length 0
       [sequences |-> << <<>> >>, labels |-> << <<>> >>],
       \* 5: fewer labels than positions
       [sequences |-> << << <<"F1">>, <<"F2">> >> >>, labels |-> << <<"B">> >>],
       \* 6: more labels than positions
       [sequences |-> << << <<"F1">> >> >>, labels |-> << <<"B", "I">> >>],
       \* 7: fewer label sequences than sequences, after an example that is right
       [sequences |-> << << <<"F1">>, <<"F2">> >>, << <<"F2">> >> >>,
        labels |-> << <<"B", "I">> >>],
       \* 8: two examples, two labels
       [sequences |-> << << <<"F1">>, <<"F2">> >>, << <<"F2">> >> >>,
        labels |-> << <<"B", "I">>, <<"I">> >>],
       \* 9: an input feature with the name of the transition feature of the
       \* labels 0 and 1
       [sequences |-> << << <<"F1">>, <<"TRANS_0_1">> >>, << <<"F1">> >> >>,
        labels |-> << <<"B", "I">>, <<"B">> >>] >>

\* the corpora Spec trains on: those of at most one example
SpecCorpora == { c \in 1..Len(Corpora) : Len(Corpora[c].sequences) <= 1 }

\* an example whose feature and label sequences differ in length
Mismatched(corpus) ==
    \/ Len(corpus.sequences) # Len(corpus.labels)
    \/ \E i \in 1..Len(corpus.sequences) :
          i <= Len(corpus.labels) /\ Len(corpus.sequences[i]) # Len(corpus.labels[i])

\* the positions of the sequences given to predict; F3 is in no corpus
Positions == { <<"F1">>, <<"F2", "F3">> }

Sequences == UNION { [1..n -> Positions] : n \in 0..MaxLen }

WellFormedData(withConfig) ==
    [object |-> TRUE,
     weights |-> [has |-> TRUE, v |-> <<1000, 2000, 3000, 4000>>],
     featureMap |-> [kind |-> "entries", v |-> << <<"F1", 0>>, <<"F2", 1>> >>],
     labelMap |-> [kind |-> "entries", v |-> << <<"B", 0>>, <<"I", 1>> >>],
     numFeatures |-> 2, numLabels |-> 2,
     config |-> IF withConfig
                THEN [has |-> TRUE, learningRate |-> 200, maxIterations |-> 1,
                      regularization |-> 100, tolerance |-> 1]
                ELSE NoConfig]

\* a model with a weight on the transition from label 0 to label 1: F1 scores
\* 1.0 for B and 0.9 for I, TRANS_0_1 scores 0.5 for I
TransitionData ==
    [WellFormedData(FALSE) EXCEPT
        !.weights = [has |-> TRUE, v |-> <<1000, 900, 0, 500>>],
        !.featureMap = [kind |-> "entries", v |-> << <<"F1", 0>>, <<"TRANS_0_1", 1>> >>]]

\* a model whose config sets the tolerance to 10: training with it takes the
\* second iteration for converged
LooseData ==
    [WellFormedData(FALSE) EXCEPT
        !.config = [has |-> TRUE, learningRate |-> 500, maxIterations |-> MaxIter,
                    regularization |-> 10, tolerance |-> 10 * TOLSCALE]]

\* values given to loadModel besides the saved one
DataLiterals ==
    { WellFormedData(TRUE),
      WellFormedData(FALSE),
      \* no weights, no featureMap, no labelMap
      [WellFormedData(FALSE) EXCEPT !.weights = [has |-> FALSE, v |-> <<>>]],
      [WellFormedData(FALSE) EXCEPT !.featureMap = [kind |-> "missing", v |-> <<>>]],
      [WellFormedData(TRUE) EXCEPT !.labelMap = [kind |-> "missing", v |-> <<>>]],
      \* weights shorter than numFeatures * numLabels
      [WellFormedData(FALSE) EXCEPT !.weights = [has |-> TRUE, v |-> <<1000, 2000, 3000>>]],
      \* a featureMap that is not iterable
      [WellFormedData(TRUE) EXCEPT !.featureMap = [kind |-> "number", v |-> <<>>]],
      \* undefined
      NoData }

\* what the specification calls malformed model data
Malformed(modelData) ==
    \/ ~modelData.object
    \/ ~modelData.weights.has
    \/ modelData.featureMap.kind # "entries"
    \/ modelData.labelMap.kind # "entries"
    \/ Len(modelData.weights.v) # modelData.numFeatures * modelData.numLabels

\* training data of ThaiSyllableSegmenter.train: lists of {text, syllables}
TrainingSets ==
    << \* 1: no sample
       <<>>,
       \* 2: one sample, two syllables
       << [text |-> <<KO_KAI, SARA_I, NO_NU, KO_KAI>>,
           syllables |-> << <<KO_KAI, SARA_I, NO_NU>>, <<KO_KAI>> >>] >>,
       \* 3: the syllables are not the text
       << [text |-> <<KO_KAI, NO_NU>>, syllables |-> << <<NO_NU>>, <<KO_KAI>> >>] >>,
       \* 4: the syllables end before the text does
       << [text |-> <<KO_KAI, NO_NU, KO_KAI>>, syllables |-> << <<KO_KAI>> >>] >>,
       \* 5: the syllables go on after the text, and a sample that is right
       << [text |-> <<KO_KAI>>, syllables |-> << <<KO_KAI>>, <<NO_NU>> >>],
          [text |-> <<NO_NU, ZWSP, KO_KAI>>, syllables |-> << <<NO_NU>>, <<KO_KAI>> >>] >>,
       \* 6: an empty text
       << [text |-> <<>>, syllables |-> <<>>] >> >>

\* texts given to segment
Texts ==
    { <<>>, <<SPACE>>, <<ZWSP>>, <<KO_KAI>>, <<KO_KAI, SARA_I, NO_NU>>,
      <<NO_NU, KO_KAI, ZWSP, KO_KAI>>, <<SPACE, KO_KAI>> }

\* the files loadModel may be pointed at: the one saveModel writes, one that
\* holds a well-formed model, one that holds {}, and a path with no file
Paths == { "model.json", "pretrained.json", "empty.json", "missing.json" }

----------------------------------------------------------------------------
(* Actions.                                                                *)

\* this.weights is set (the check of predict, line 329)
HasWeights == weights.kind # "null"

\* the value evaluate returns when it has not run
NoMetrics ==
    [accuracy |-> <<0, 1>>, precision |-> <<0, 1>>, recall |-> <<0, 1>>,
     f1Score |-> <<0, 1>>, exactMatches |-> 0, totalSamples |-> 0]

NoCall ==
    [op |-> "new", outcome |-> "ok", hadWeights |-> FALSE,
     corpus |-> 0, sequence |-> <<>>,
     data |-> NoData, ret |-> <<>>, scoreCalls |-> 0,
     trainingData |-> 0, text |-> <<>>, syllables |-> <<>>, path |-> "",
     logLikelihoods |-> <<>>, message |-> "", options |-> NoOptions,
     metrics |-> NoMetrics, given |-> <<>>]

\* new ThaiSyllableSegmenter(options), which makes its CRF with new CRF(options)
Construct(options) ==
    /\ SetThis(NewCRF(options))
    /\ isModelLoaded' = FALSE
    /\ call' = [NoCall EXCEPT !.options = options]
    /\ succeeded' = FALSE
    /\ UNCHANGED <<saved, file>>

\* the state new ThaiSyllableSegmenter(options) leaves, nothing saved yet
Constructed(options) ==
    /\ weights = NewCRF(options).weights
    /\ featureMap = NewCRF(options).featureMap
    /\ labelMap = NewCRF(options).labelMap
    /\ numFeatures = NewCRF(options).numFeatures
    /\ numLabels = NewCRF(options).numLabels
    /\ learningRate = NewCRF(options).learningRate
    /\ maxIterations = NewCRF(options).maxIterations
    /\ regularization = NewCRF(options).regularization
    /\ tolerance = NewCRF(options).tolerance
    /\ isModelLoaded = FALSE
    /\ saved = [has |-> FALSE, data |-> NoData, model |-> NewCRF(NoOptions)]
    /\ file = [exists |-> FALSE, crf |-> NoData]
    /\ call = [NoCall EXCEPT !.options = options]
    /\ succeeded = FALSE

Init == \E options \in OptionSets : Constructed(options)

\* crf.train(sequences, labels)
Train(c) ==
    \E r \in { train(This, Corpora[c].sequences, Corpora[c].labels) } :
       /\ SetThis(r.self)
       /\ call' = [NoCall EXCEPT !.op = "train", !.outcome = r.outcome,
                                 !.hadWeights = HasWeights, !.corpus = c,
                                 !.logLikelihoods = r.logLikelihoods]
       /\ succeeded' = (succeeded \/ r.outcome = "ok")
       /\ UNCHANGED <<isModelLoaded, saved, file>>

\* crf.predict(sequence) of a CRF whose vocabulary is open: a feature string
\* it does not have yet is given the next id when it is looked up
PredictLearning(sequence) ==
    \E r \in { predict(This, sequence) } :
       /\ call' = [NoCall EXCEPT !.op = "predict", !.outcome = r.outcome,
                                 !.hadWeights = HasWeights,
                                 !.sequence = sequence, !.ret = r.ret,
                                 !.scoreCalls = r.scoreCalls]
       /\ featureMap' = IF r.outcome = "ok"
                        THEN BuildMap(Flatten(sequence), featureMap, Len(featureMap)).map
                        ELSE featureMap
       /\ UNCHANGED <<weights, labelMap, numFeatures, numLabels, learningRate,
                      maxIterations, regularization, tolerance,
                      isModelLoaded, saved, file, succeeded>>

\* crf.predict(sequence)
Predict(sequence) ==
    \E r \in { predict(This, sequence) } :
       /\ call' = [NoCall EXCEPT !.op = "predict", !.outcome = r.outcome,
                                 !.hadWeights = HasWeights,
                                 !.sequence = sequence, !.ret = r.ret,
                                 !.scoreCalls = r.scoreCalls]
       /\ UNCHANGED <<crfVars, isModelLoaded, saved, file, succeeded>>

\* modelData = crf.saveModel()
SaveModel ==
    \E r \in { saveModel(This) } :
       /\ saved' = IF r.outcome = "ok"
                   THEN [has |-> TRUE, data |-> r.ret, model |-> This]
                   ELSE saved
       /\ call' = [NoCall EXCEPT !.op = "saveModel", !.outcome = r.outcome,
                                 !.hadWeights = HasWeights, !.data = r.ret]
       /\ UNCHANGED <<crfVars, isModelLoaded, file, succeeded>>

\* crf.loadModel(modelData)
LoadModel(modelData) ==
    \E r \in { loadModel(This, modelData) } :
       /\ SetThis(r.self)
       /\ call' = [NoCall EXCEPT !.op = "loadModel", !.outcome = r.outcome,
                                 !.hadWeights = HasWeights, !.data = modelData]
       /\ succeeded' = (succeeded \/ r.outcome = "ok")
       /\ UNCHANGED <<isModelLoaded, saved, file>>


----------------------------------------------------------------------------
(* The methods of ThaiSyllableSegmenter.                                   *)

\* segmenter.train(trainingData)
SegTrain(td) ==
    \E prepared \in { PrepareAll(TrainingSets[td]) } :
       IF Len(prepared.sequences) = 0
       THEN /\ call' = [NoCall EXCEPT !.op = "seg.train", !.outcome = "error",
                                      !.hadWeights = HasWeights, !.trainingData = td]
            /\ UNCHANGED <<crfVars, isModelLoaded, saved, file, succeeded>>
       ELSE \E r \in { train(This, prepared.sequences, prepared.labels) } :
               /\ SetThis(r.self)
               /\ isModelLoaded' = IF r.outcome = "ok" THEN TRUE ELSE isModelLoaded
               /\ call' = [NoCall EXCEPT !.op = "seg.train", !.outcome = r.outcome,
                                         !.hadWeights = HasWeights, !.trainingData = td]
               /\ succeeded' = (succeeded \/ r.outcome = "ok")
               /\ UNCHANGED <<saved, file>>

\* the messages of the errors segment can throw (FeatureExtractor.js line
\* 410, ThaiUtils.js line 330)
NotLoadedMessage == "Model not loaded. Please train or load a model first."
NotTrainedMessage == "Model not trained yet"

\* lines 417-428 of segment: [outcome, ret, message]
SegmentText(self, text) ==
    LET extracted == extractSequenceFeatures(normalize(text))
        predicted == predict(self, extracted.features)
    IN  IF extracted.chars = <<>> THEN [outcome |-> "ok", ret |-> <<>>, message |-> ""]
        ELSE IF predicted.outcome = "error"
        THEN [outcome |-> "error", ret |-> <<>>, message |-> NotTrainedMessage]
        ELSE [outcome |-> "ok", message |-> "",
              ret |-> _labelsToSyllables(extracted.chars, predicted.ret, 1, <<>>, <<>>)]

\* segment with the shortcut for an empty text before the check of
\* isModelLoaded
segmentEmptyFirst(self, loaded, text) ==
    IF text = <<>> \/ trim(text) = <<>> THEN [outcome |-> "ok", ret |-> <<>>, message |-> ""]
    ELSE IF ~loaded THEN [outcome |-> "error", ret |-> <<>>, message |-> NotLoadedMessage]
    ELSE SegmentText(self, text)

\* ThaiSyllableSegmenter.segment: [outcome, ret, message]
segment(self, loaded, text) ==
    IF ~loaded THEN [outcome |-> "error", ret |-> <<>>, message |-> NotLoadedMessage]
    ELSE IF text = <<>> \/ trim(text) = <<>> THEN [outcome |-> "ok", ret |-> <<>>, message |-> ""]
    ELSE SegmentText(self, text)

\* segmenter.segment(text)
SegSegment(text) ==
    \E r \in { segment(This, isModelLoaded, text) } :
       /\ call' = [NoCall EXCEPT !.op = "seg.segment", !.outcome = r.outcome,
                                 !.hadWeights = HasWeights,
                                 !.text = text, !.syllables = r.ret,
                                 !.message = r.message]
       /\ UNCHANGED <<crfVars, isModelLoaded, saved, file, succeeded>>

\* ThaiSyllableSegmenter._getBoundaryPositions: the position after every
\* syllable but the last, in code units
BoundaryPositions(syllables) ==
    Array([i \in 1..(Len(syllables) - 1) |->
              SumSeq(Array([k \in 1..i |-> Len(syllables[k])]))])

\* ThaiSyllableSegmenter._evaluateBoundaries
_evaluateBoundaries(predicted, actual) ==
    LET predictedBoundaries == BoundaryPositions(predicted)
        actualBoundaries == BoundaryPositions(actual)
        predictedSet == { predictedBoundaries[i] : i \in 1..Len(predictedBoundaries) }
        actualSet == { actualBoundaries[i] : i \in 1..Len(actualBoundaries) }
        predictedTotal == SumSeq(Array([k \in 1..Len(predicted) |-> Len(predicted[k])]))
        actualTotal == SumSeq(Array([k \in 1..Len(actual) |-> Len(actual[k])]))
    IN  [correct |-> Cardinality(predictedSet \cap actualSet),
         predictedCount |-> Len(predictedBoundaries),
         trueCount |-> Len(actualBoundaries),
         total |-> IF predictedTotal >= actualTotal THEN predictedTotal ELSE actualTotal]

\* a quotient of two counts as <<numerator, denominator>>: 0 is <<0, 1>> and
\* 0 / 0, which is NaN, is <<0, 0>>
Quotient(n, d) == IF n = 0 /\ d > 0 THEN <<0, 1>> ELSE <<n, d>>

\* the counts of evaluate before the first sample
NoCounts ==
    [threw |-> FALSE, exactMatches |-> 0, correctBoundaries |-> 0,
     predictedBoundaries |-> 0, trueBoundaries |-> 0, totalCharacters |-> 0]

\* lines 508-523 of evaluate for one sample, predicted being the outcome of
\* segment on its text: threw when that call has thrown
AddSample(counts, predicted, actual) ==
    IF predicted.outcome = "error" THEN [counts EXCEPT !.threw = TRUE]
    ELSE LET b == _evaluateBoundaries(predicted.ret, actual)
         IN  [threw |-> FALSE,
              exactMatches |-> counts.exactMatches + IF predicted.ret = actual THEN 1 ELSE 0,
              correctBoundaries |-> counts.correctBoundaries + b.correct,
              predictedBoundaries |-> counts.predictedBoundaries + b.predictedCount,
              trueBoundaries |-> counts.trueBoundaries + b.trueCount,
              totalCharacters |-> counts.totalCharacters + b.total]

\* the loop of lines 507-524 of evaluate over the samples from i on, with
\* the counts so far
RECURSIVE EvaluateSamples(_, _, _, _, _)
EvaluateSamples(self, loaded, testData, i, counts) ==
    IF i > Len(testData) \/ counts.threw THEN counts
    ELSE EvaluateSamples(self, loaded, testData, i + 1,
             AddSample(counts, segment(self, loaded, testData[i].text),
                       testData[i].syllables))

\* lines 526-538 of evaluate: [outcome, metrics, message].  Precision is
\* correct / predicted and recall correct / true, so that f1Score,
\* 2 * precision * recall / (precision + recall), is 2 * correct /
\* (predicted + true) when correct > 0 and 0 otherwise.
MetricsOf(counts, totalSamples) ==
    IF counts.threw
    THEN [outcome |-> "error", metrics |-> NoMetrics, message |-> NotTrainedMessage]
    ELSE [outcome |-> "ok", message |-> "",
          metrics |->
            [accuracy |-> Quotient(counts.exactMatches, totalSamples),
             precision |-> IF counts.predictedBoundaries > 0
                           THEN Quotient(counts.correctBoundaries, counts.predictedBoundaries)
                           ELSE <<0, 1>>,
             recall |-> IF counts.trueBoundaries > 0
                        THEN Quotient(counts.correctBoundaries, counts.trueBoundaries)
                        ELSE <<0, 1>>,
             f1Score |-> IF counts.correctBoundaries > 0
                         THEN Quotient(2 * counts.correctBoundaries,
                                       counts.predictedBoundaries + counts.trueBoundaries)
                         ELSE <<0, 1>>,
             exactMatches |-> counts.exactMatches,
             totalSamples |-> totalSamples]]

\* ThaiSyllableSegmenter.evaluate: [outcome, metrics, message]
evaluate(self, loaded, testData) ==
    IF ~loaded
    THEN [outcome |-> "error", metrics |-> NoMetrics, message |-> "Model not loaded"]
    ELSE MetricsOf(EvaluateSamples(self, loaded, testData, 1, NoCounts), Len(testData))

\* segmenter.evaluate(testData), the test data being a training set
SegEvaluate(td) ==
    \E r \in { evaluate(This, isModelLoaded, TrainingSets[td]) } :
       /\ call' = [NoCall EXCEPT !.op = "seg.evaluate", !.outcome = r.outcome,
                                 !.hadWeights = HasWeights, !.trainingData = td,
                                 !.metrics = r.metrics, !.message = r.message]
       /\ UNCHANGED <<crfVars, isModelLoaded, saved, file, succeeded>>

\* segmenter.saveModel("model.json"); JSON.stringify keeps every value a
\* model of this alphabet holds
SegSaveModel ==
    \E r \in { saveModel(This) } :
       IF ~isModelLoaded \/ r.outcome = "error"
       THEN /\ call' = [NoCall EXCEPT !.op = "seg.saveModel", !.outcome = "error",
                                      !.hadWeights = HasWeights]
            /\ UNCHANGED <<crfVars, isModelLoaded, saved, file, succeeded>>
       ELSE /\ file' = [exists |-> TRUE, crf |-> r.ret]
            /\ call' = [NoCall EXCEPT !.op = "seg.saveModel", !.outcome = "ok",
                                      !.hadWeights = HasWeights, !.path = "model.json"]
            /\ UNCHANGED <<crfVars, isModelLoaded, saved, succeeded>>

\* fs.readFile(path) and JSON.parse: the crf field of the file, if there is
\* a file
ReadFile(path) ==
    IF path = "model.json" THEN file
    ELSE IF path = "pretrained.json" THEN [exists |-> TRUE, crf |-> WellFormedData(TRUE)]
    ELSE IF path = "empty.json" THEN [exists |-> TRUE, crf |-> NoData]
    ELSE [exists |-> FALSE, crf |-> NoData]

\* loadModel that sets isModelLoaded before it calls crf.loadModel
SegLoadModelMarkingFirst(path) ==
    \E f \in { ReadFile(path) } :
       IF ~f.exists
       THEN /\ call' = [NoCall EXCEPT !.op = "seg.loadModel", !.outcome = "error",
                                      !.hadWeights = HasWeights, !.path = path]
            /\ UNCHANGED <<crfVars, isModelLoaded, saved, file, succeeded>>
       ELSE \E r \in { loadModel(This, f.crf) } :
               /\ SetThis(r.self)
               /\ isModelLoaded' = TRUE
               /\ call' = [NoCall EXCEPT !.op = "seg.loadModel", !.outcome = r.outcome,
                                         !.hadWeights = HasWeights,
                                         !.path = path, !.data = f.crf]
               /\ succeeded' = (succeeded \/ r.outcome = "ok")
               /\ UNCHANGED <<saved, file>>

\* segmenter.loadModel(path)
SegLoadModel(path) ==
    \E f \in { ReadFile(path) } :
       IF ~f.exists
       THEN /\ call' = [NoCall EXCEPT !.op = "seg.loadModel", !.outcome = "error",
                                      !.hadWeights = HasWeights, !.path = path]
            /\ UNCHANGED <<crfVars, isModelLoaded, saved, file, succeeded>>
       ELSE \E r \in { loadModel(This, f.crf) } :
               /\ SetThis(r.self)
               /\ isModelLoaded' = IF r.outcome = "ok" THEN TRUE ELSE isModelLoaded
               /\ call' = [NoCall EXCEPT !.op = "seg.loadModel", !.outcome = r.outcome,
                                         !.hadWeights = HasWeights,
                                         !.path = path, !.data = f.crf]
               /\ succeeded' = (succeeded \/ r.outcome = "ok")
               /\ UNCHANGED <<saved, file>>

SegNext ==
    \/ \E options \in OptionSets : Construct(options)
    \/ \E td \in 1..Len(TrainingSets) : SegTrain(td)
    \/ \E text \in Texts : SegSegment(text)
    \/ SegSaveModel
    \/ \E path \in Paths : SegLoadModel(path)
    \/ \E td \in 1..Len(TrainingSets) : SegEvaluate(td)

SegSpec == Init /\ [][SegNext]_vars

----------------------------------------------------------------------------
(* Specifications.  Spec: the methods of the CRF called on segmenter.crf,  *)
(* and saveModel of the segmenter, which was never trained or loaded.      *)
(* SegSpec: the methods of the segmenter.  TrainSpec: train and predict    *)
(* on more inputs, without saveModel.                                      *)

Next ==
    \/ \E options \in OptionSets : Construct(options)
    \/ \E c \in SpecCorpora : Train(c)
    \/ \E sequence \in Sequences : Predict(sequence)
    \/ SaveModel
    \/ \E modelData \in DataLiterals : LoadModel(modelData)
    \/ saved.has /\ LoadModel(saved.data)
    \/ SegSaveModel

Spec == Init /\ [][Next]_vars

\* TrainSpec: train on every corpus, loadModel of the literals and of the
\* model with a transition weight, and predict; nothing is saved.
TrainNext ==
    \/ \E options \in OptionSets : Construct(options)
    \/ \E c \in 1..Len(Corpora) : Train(c)
    \/ \E sequence \in Sequences : Predict(sequence)
    \/ \E modelData \in DataLiterals \cup {TransitionData, LooseData} : LoadModel(modelData)

TrainSpec == Init /\ [][TrainNext]_vars

----------------------------------------------------------------------------
(* Properties.                                                             *)

\* the entries of a Map as a set of (string, id) pairs
Pairs(entries) == { entries[i] : i \in 1..Len(entries) }

hyperparameters == <<learningRate, maxIterations, regularization, tolerance>>

\* C1: on a CRF whose weights are set (trained or imported), predict returns,
\* and the label sequence it returns is as long as the input; for the empty
\* input it returns the empty sequence and calls neither _computeScore nor
\* _computeTransitionScore.
C1_PredictKeepsLength ==
    (call.op = "predict" /\ HasWeights) =>
        /\ call.outcome = "ok"
        /\ Len(call.ret) = Len(call.sequence)
        /\ (Len(call.sequence) = 0 => call.ret = <<>> /\ call.scoreCalls = 0)

\* predict has labelled a sequence of MaxLen positions with two labels
C1_Witness ==
    /\ call.op = "predict" /\ call.outcome = "ok"
    /\ Len(call.sequence) = MaxLen /\ numLabels = 2 /\ call.scoreCalls > 0
    /\ Len(call.ret) = MaxLen

\* C2: predict fails as long as no train and no loadModel call has completed
\* without an error on the instance, whatever the input.
C2_PredictFailsBeforeSuccess ==
    (call.op = "predict" /\ ~succeeded) => call.outcome = "error"

C4_EmptyTrainingSetFails ==
    (call.op = "train" /\ Corpora[call.corpus].sequences = <<>>) =>
        call.outcome = "error"

\* C5: train fails when an example's feature sequence and label sequence
\* differ in length.
C5_LengthMismatchFails ==
    (call.op = "train" /\ Mismatched(Corpora[call.corpus])) =>
        call.outcome = "error"

\* C6: loadModel fails when the value lacks weights, featureMap or labelMap,
\* or when weights has not numFeatures * numLabels elements.
C6_MalformedDataFails ==
    (call.op = "loadModel" /\ Malformed(call.data)) => call.outcome = "error"

\* C7: a train, loadModel, predict or saveModel call that ends in an error
\* leaves every field of the CRF as it was.
C7_ErrorKeepsState ==
    [][ (call'.op \in {"train", "loadModel", "predict", "saveModel"}
         /\ call'.outcome = "error") => crfVars' = crfVars ]_vars

\* C8: after the value of a saveModel call was loaded, saveModel returns the
\* same weights in the same order, the same (string, id) pairs of both maps,
\* the same numFeatures and numLabels and the same hyperparameters.
C8_RoundTrip ==
    (call.op = "loadModel" /\ call.outcome = "ok" /\ saved.has /\ call.data = saved.data) =>
        LET again == saveModel(This)
        IN  /\ again.outcome = "ok"
            /\ again.ret.weights = saved.data.weights
            /\ Pairs(again.ret.featureMap.v) = Pairs(saved.data.featureMap.v)
            /\ Pairs(again.ret.labelMap.v) = Pairs(saved.data.labelMap.v)
            /\ again.ret.numFeatures = saved.data.numFeatures
            /\ again.ret.numLabels = saved.data.numLabels
            /\ again.ret.config = saved.data.config

\* a new CRF has loaded the value saved from a CRF trained on two labels
C8_Witness ==
    /\ call.op = "loadModel" /\ call.outcome = "ok" /\ ~call.hadWeights
    /\ saved.has /\ call.data = saved.data
    /\ Len(weights.data) = 4 /\ weights.data[1] # 0

\* C9: after the value saved from a CRF m was loaded, predict returns for
\* every input what it returns on m.
C9_LoadedModelPredictsAlike ==
    (call.op = "loadModel" /\ call.outcome = "ok" /\ saved.has /\ call.data = saved.data) =>
        \A sequence \in Sequences :
            predict(This, sequence) = predict(saved.model, sequence)

\* a new CRF has loaded the value saved from a CRF that train had given two
\* labels and weights that tell them apart
C9_Witness ==
    /\ call.op = "loadModel" /\ call.outcome = "ok" /\ ~call.hadWeights
    /\ saved.has /\ call.data = saved.data
    /\ numLabels = 2 /\ featureMap # EmptyMap
    /\ \E sequence \in Sequences : \E i \in 1..Len(sequence) :
          predict(This, sequence).ret[i] = "I"

\* C10: a loadModel call that returns sets the four hyperparameters to the
\* config of the value if it has one; without a config loadModel leaves the
\* four as they were.
C10_ConfigOverwritesOrKeeps ==
    [][ (call'.op = "loadModel") =>
           /\ (call'.outcome = "ok" /\ call'.data.config.has) =>
                 hyperparameters' = << call'.data.config.learningRate,
                                       call'.data.config.maxIterations,
                                       call'.data.config.regularization,
                                       call'.data.config.tolerance >>
           /\ ~call'.data.config.has => hyperparameters' = hyperparameters ]_vars

\* a value without config was loaded into a CRF whose hyperparameters are not
\* the defaults
C10_Witness ==
    /\ call.op = "loadModel" /\ call.outcome = "ok"
    /\ call.data.object /\ ~call.data.config.has
    /\ learningRate # DefaultLearningRate /\ maxIterations # DefaultMaxIterations

\* the feature strings and the label strings of a corpus in the order
\* _buildMappings meets them
FeatureItems(corpus) == Flatten(Flatten(corpus.sequences))
LabelItems(corpus) == Flatten(corpus.labels)

\* the place at which x is met first
FirstSeen(items, x) ==
    CHOOSE i \in 1..Len(items) : items[i] = x /\ \A k \in 1..(i - 1) : items[k] # x

\* map gives every string of items one id, the ids are 0..count-1, they grow
\* in the order in which the strings are first met, and count is the size
DenseFirstSeen(map, count, items) ==
    /\ Len(map) = count
    /\ \A i, k \in 1..Len(map) : map[i][1] = map[k][1] => i = k
    /\ { map[i][1] : i \in 1..Len(map) } = { items[i] : i \in 1..Len(items) }
    /\ { map[i][2] : i \in 1..Len(map) } = 0..(count - 1)
    /\ \A i, k \in 1..Len(map) :
          map[i][2] < map[k][2] <=> FirstSeen(items, map[i][1]) < FirstSeen(items, map[k][1])

\* C11: after a train call, featureMap and labelMap give every string of the
\* corpus exactly one id, the ids are 0..count-1 without a gap, in the order
\* in which the strings are first met in the corpus, and numFeatures and
\* numLabels are the sizes of the two maps.
C11_DenseIdsInFirstSeenOrder ==
    call.op = "train" =>
        /\ DenseFirstSeen(featureMap, numFeatures, FeatureItems(Corpora[call.corpus]))
        /\ DenseFirstSeen(labelMap, numLabels, LabelItems(Corpora[call.corpus]))

\* train has returned on a corpus in which a feature and a label are met
\* more than once, on a CRF that had another vocabulary before
C11_Witness ==
    /\ call.op = "train" /\ call.outcome = "ok" /\ call.hadWeights
    /\ numFeatures = 2
    /\ \E i, k \in 1..Len(FeatureItems(Corpora[call.corpus])) :
          i # k /\ FeatureItems(Corpora[call.corpus])[i] = FeatureItems(Corpora[call.corpus])[k]
    /\ \E i, k \in 1..Len(LabelItems(Corpora[call.corpus])) :
          i # k /\ LabelItems(Corpora[call.corpus])[i] = LabelItems(Corpora[call.corpus])[k]

\* the feature strings given to predict
FeatureStrings == UNION { { p[i] : i \in 1..Len(p) } : p \in Positions }

\* the strings among them that are not in the vocabulary
UnseenFeatures == { f \in FeatureStrings : ~MapHas(featureMap, f) }

\* weights[f * numLabels + label] summed over the features of known, all of
\* which are in the vocabulary
RECURSIVE WeightSum(_, _)
WeightSum(known, label) ==
    IF known = <<>> THEN Num(0)
    ELSE FAdd(WeightSum(SubSeq(known, 1, Len(known) - 1), label),
              WeightAt(This, << MapGet(featureMap, known[Len(known)])[1] * numLabels + label >>))

\* the sequence with the feature f added to every position
WithFeature(sequence, f) == [i \in 1..Len(sequence) |-> Append(sequence[i], f)]

\* C12: the score of a position for a label is the sum of
\* weights[f * numLabels + label] over the features of the position that are
\* in featureMap; a feature that is not in featureMap scores 0 for every
\* label, and adding it to every position of the input leaves the result of
\* predict as it is.
C12_UnseenFeaturesScoreZero ==
    (call.op = "predict" /\ call.outcome = "ok") =>
        /\ \A i \in 1..Len(call.sequence) : \A label \in 0..(numLabels - 1) :
              /\ _computeScore(This, call.sequence[i], <<label>>)
                    = WeightSum(SelectSeq(call.sequence[i], LAMBDA f : MapHas(featureMap, f)), label)
              /\ \A f \in UnseenFeatures :
                    /\ _computeScore(This, <<f>>, <<label>>) = Num(0)
                    /\ _computeScore(This, Append(call.sequence[i], f), <<label>>)
                          = _computeScore(This, call.sequence[i], <<label>>)
        /\ \A f \in UnseenFeatures :
              /\ predict(This, WithFeature(call.sequence, f)).outcome = "ok"
              /\ predict(This, WithFeature(call.sequence, f)).ret = call.ret

\* predict has labelled, with two labels, a sequence that has a position
\* with a feature of the vocabulary and one that is not in it
C12_Witness ==
    /\ call.op = "predict" /\ call.outcome = "ok" /\ numLabels = 2
    /\ Len(weights.data) = numFeatures * numLabels
    /\ \E i \in 1..Len(call.sequence) :
          /\ \E k \in 1..Len(call.sequence[i]) : call.sequence[i][k] \in UnseenFeatures
          /\ \E k \in 1..Len(call.sequence[i]) : MapHas(featureMap, call.sequence[i][k])
          /\ _computeScore(This, call.sequence[i], <<1>>).t = "num"
          /\ _computeScore(This, call.sequence[i], <<1>>).v # 0
    /\ \E i \in 1..Len(call.ret) : call.ret[i] = "I"

\* the score line 352 computes for label j at the 1-based position i >= 2
\* coming from label k, dp being the rows of the forward pass
Candidate(dp, i, j, k) ==
    FAdd(FAdd(dp[i - 1][k + 1], _computeTransitionScore(This, <<k>>, <<j>>)),
         _computeScore(This, call.sequence[i], <<j>>))

\* the lowest index (from 0) at which the sequence of numbers has its maximum
LeastArgMax(scores) ==
    CHOOSE b \in 0..(Len(scores) - 1) :
        \A k \in 0..(Len(scores) - 1) :
            /\ scores[k + 1].v <= scores[b + 1].v
            /\ scores[k + 1].v = scores[b + 1].v => b <= k

\* the label id of position i when every tie goes to the lowest id
RECURSIVE LowestIdPath(_, _)
LowestIdPath(dp, i) ==
    IF i = Len(dp) THEN LeastArgMax(dp[i])
    ELSE LeastArgMax([k \in 1..numLabels |-> Candidate(dp, i + 1, LowestIdPath(dp, i + 1), k - 1)])

\* the rows dp[0..n-1] of the forward pass on the input of the last call
DpRows ==
    LET rows == ViterbiForward(This, call.sequence, Len(call.sequence))
    IN  [i \in 1..Len(rows) |-> rows[i].dp]

\* every score of the forward pass is a finite number
FiniteScores(dp) ==
    \A i \in 1..Len(dp) : \A j \in 1..Len(dp[i]) : dp[i][j].t = "num"

\* C13: when all scores are finite, the last label predict returns is the
\* lowest id among those with the highest dp[n-1], and every earlier label is
\* the lowest id among the previous labels with the highest score in the
\* scan for its successor: of labels with exactly equal score the one with
\* the lowest id is kept.
C13_TiesGoToLowestId ==
    (call.op = "predict" /\ call.outcome = "ok" /\ Len(call.sequence) >= 1
        /\ numLabels >= 1 /\ FiniteScores(DpRows)) =>
       \A i \in 1..Len(call.sequence) :
           call.ret[i] = LabelName(This, << LowestIdPath(DpRows, i) >>)

\* predict has labelled a sequence of two or more positions with a trained
\* or imported model for which both labels score the same at the end and in
\* the scan over the previous labels, and has returned the first label
C13_Witness ==
    /\ call.op = "predict" /\ call.outcome = "ok" /\ Len(call.sequence) >= 2
    /\ numLabels = 2 /\ FiniteScores(DpRows)
    /\ \E w \in 1..Len(weights.data) : weights.data[w] # 0
    /\ DpRows[Len(DpRows)][1] = DpRows[Len(DpRows)][2]
    /\ Candidate(DpRows, 2, 0, 0) = Candidate(DpRows, 2, 0, 1)
    /\ \A i \in 1..Len(call.ret) : call.ret[i] = LabelName(This, <<0>>)
    /\ LabelName(This, <<0>>) # Undefined

\* the total score of the label ids of positions 1..i: the emission score of
\* every position and the transition score of every adjacent pair
RECURSIVE TotalScore(_, _)
TotalScore(ids, i) ==
    IF i = 0 THEN Num(0)
    ELSE LET emitted == FAdd(TotalScore(ids, i - 1),
                             _computeScore(This, call.sequence[i], <<ids[i]>>))
         IN  IF i > 1
             THEN FAdd(emitted, _computeTransitionScore(This, <<ids[i - 1]>>, <<ids[i]>>))
             ELSE emitted

\* weights, numFeatures, numLabels and labelMap are those of a trained model
TrainedShape ==
    /\ HasWeights
    /\ Len(weights.data) = numFeatures * numLabels
    /\ Len(labelMap) = numLabels
    /\ { labelMap[i][2] : i \in 1..Len(labelMap) } = 0..(numLabels - 1)

\* the ids of the labels the last call returned
ReturnedIds == [i \in 1..Len(call.ret) |-> MapGet(labelMap, call.ret[i])[1]]

\* C14: for a model of the shape train leaves and a non-empty input, no
\* label sequence of the input's length has a higher total score than the
\* one predict returns.
C14_PredictReturnsBestPath ==
    (call.op = "predict" /\ call.outcome = "ok" /\ Len(call.sequence) >= 1
        /\ numLabels >= 1 /\ TrainedShape /\ FiniteScores(DpRows)) =>
       \A ids \in [1..Len(call.sequence) -> 0..(numLabels - 1)] :
           TotalScore(ids, Len(call.sequence)).v
              <= TotalScore(ReturnedIds, Len(call.sequence)).v

\* predict has returned B, I for two equal positions whose emission score is
\* higher for B: the transition score from B to I decides
C14_Witness ==
    /\ call.op = "predict" /\ call.outcome = "ok" /\ Len(call.sequence) = 2
    /\ numLabels = 2 /\ TrainedShape
    /\ call.sequence[1] = call.sequence[2]
    /\ _computeScore(This, call.sequence[2], <<0>>).v > _computeScore(This, call.sequence[2], <<1>>).v
    /\ _computeTransitionScore(This, <<0>>, <<1>>).v > 0
    /\ ReturnedIds = <<0, 1>>

\* C15: every element of the sequence predict returns is a label string of
\* labelMap, never undefined.
C15_PredictReturnsLabels ==
    (call.op = "predict" /\ call.outcome = "ok") =>
        \A i \in 1..Len(call.ret) :
            call.ret[i] # Undefined /\ MapHas(labelMap, call.ret[i])

\* C16: whenever the CRF has weights, weights has numFeatures * numLabels
\* elements and numFeatures and numLabels are the sizes of featureMap and
\* labelMap.
C16_WeightsMatchVocabularies ==
    HasWeights =>
        /\ Len(weights.data) = numFeatures * numLabels
        /\ numFeatures = Len(featureMap)
        /\ numLabels = Len(labelMap)

\* |a - b| < tolerance, a and b log-likelihoods
WithinTolerance(a, b) ==
    LET d == FAbs(FSub(a, b))
    IN  d.t = "num" /\ d.v * (TOLSCALE \div SCALE) < tolerance

\* the log-likelihood before iteration t of the last train call (1-based):
\* -Infinity before the first
LogLikelihoodBefore(t) == IF t = 1 THEN NegInf ELSE call.logLikelihoods[t - 1]

\* C17: a train call completes at most maxIterations iterations; it goes on
\* after an iteration whose log-likelihood is not within tolerance of the
\* one before, stops after the first that is, and returns without an error
\* when maxIterations iterations were completed without such an iteration.
C17_TrainStopsAtConvergenceOrCap ==
    call.op = "train" =>
       LET done == Len(call.logLikelihoods)
       IN  /\ done <= maxIterations
           /\ \A t \in 1..(done - 1) :
                 ~WithinTolerance(call.logLikelihoods[t], LogLikelihoodBefore(t))
           /\ (call.outcome = "ok" /\ done < maxIterations) =>
                 done >= 1 /\ WithinTolerance(call.logLikelihoods[done], LogLikelihoodBefore(done))
           /\ done = maxIterations => call.outcome = "ok"

\* train has stopped before the cap, after the second iteration of a corpus
\* with a label, because the log-likelihood did not change
C17_Witness ==
    /\ call.op = "train" /\ call.outcome = "ok" /\ numLabels >= 1
    /\ Len(call.logLikelihoods) = 2 /\ maxIterations > 2
    /\ WithinTolerance(call.logLikelihoods[2], call.logLikelihoods[1])

\* the corpus of the last train call
TrainedCorpus == Corpora[call.corpus]

\* n zeros
Zeros(n) == [j \in 1..n |-> 0]

\* the gradient of example i alone, computed with the weights of self
ExampleGradient(self, i) ==
    _updateGradients(self, TrainedCorpus.sequences[i], TrainedCorpus.labels[i],
                     _forwardBackward(self, TrainedCorpus.sequences[i]), 1,
                     Zeros(Len(self.weights.data)))

\* the sum of the gradients of examples 1..i, all with the weights of self
RECURSIVE CorpusGradient(_, _)
CorpusGradient(self, i) ==
    IF i = 0 THEN Zeros(Len(self.weights.data))
    ELSE LET sum == CorpusGradient(self, i - 1)
             g == ExampleGradient(self, i)
         IN  [j \in 1..Len(sum) |-> sum[j] + g[j]] \o <<>>

\* one iteration as one step: weight += learningRate * gradient, the
\* gradient being that of the whole corpus less regularization * weight,
\* both with the weights of the start of the iteration
BatchStep(self) ==
    LET w == self.weights.data
        g == CorpusGradient(self, Len(TrainedCorpus.sequences))
    IN  [self EXCEPT !.weights = Float64Array(
            [j \in 1..Len(w) |->
                w[j] + (learningRate * (g[j] - (regularization * w[j]) \div SCALE)) \div SCALE]
            \o <<>>)]

RECURSIVE AfterIterations(_, _)
AfterIterations(self, k) ==
    IF k = 0 THEN self ELSE BatchStep(AfterIterations(self, k - 1))

\* the CRF as train has it before the first iteration: the vocabulary of the
\* corpus and weights of zeros
IterationStart == [This EXCEPT !.weights = Float64Array(Zeros(numFeatures * numLabels))]

C19_PredictAndSaveReadOnly ==
    [][ (call'.op \in {"predict", "saveModel", "seg.saveModel"}) =>
           /\ crfVars' = crfVars
           /\ call'.op = "predict" =>
                 /\ predict(This', call'.sequence).outcome = call'.outcome
                 /\ predict(This', call'.sequence).ret = call'.ret ]_vars

\* predict has labelled a sequence with a feature that is not in the
\* vocabulary, and the vocabulary still lacks it
C19_Witness ==
    /\ call.op = "predict" /\ call.outcome = "ok" /\ numLabels = 2
    /\ featureMap # EmptyMap
    /\ \E i \in 1..Len(call.sequence) : \E k \in 1..Len(call.sequence[i]) :
          ~MapHas(featureMap, call.sequence[i][k])

----------------------------------------------------------------------------
(* EndToEndSpec: a new CRF is trained once on the example of the           *)
(* specification's end-to-end scenario and then asked to predict.          *)

\* the example: F1 with gold label B, then F2 with gold label I
EndToEndCorpora ==
    { c \in 1..Len(Corpora) :
        /\ Corpora[c].sequences = << << <<"F1">>, <<"F2">> >> >>
        /\ Corpora[c].labels = << <<"B", "I">> >> }

\* constructor options: iteration caps up to the scenario's 200, learning
\* rates 0.1 and 0.5, regularizations 0.01 and 0.1
EndToEndOptionSets ==
    { [learningRate |-> <<lr>>, maxIterations |-> <<cap>>,
       regularization |-> <<reg>>, tolerance |-> Omitted] :
         lr \in {100, 500}, cap \in {50, 100, 150, 200}, reg \in {10, 100} }

EndToEndInit == \E options \in EndToEndOptionSets : Constructed(options)

\* the input of the scenario
EndToEndInput == << <<"F1">>, <<"F2">> >>

EndToEndNext ==
    \/ ~HasWeights /\ \E c \in EndToEndCorpora : Train(c)
    \/ \E sequence \in Sequences \cup {EndToEndInput} : Predict(sequence)

EndToEndSpec == EndToEndInit /\ [][EndToEndNext]_vars

\* C20: after train on the one example (F1 -> B, F2 -> I), predict of
\* [["F1"], ["F2"]] returns ["B", "I"]: with 200 iterations, learning rate
\* 0.5 and regularization 0.01, and with the other options of
\* EndToEndOptionSets.
C20_EndToEnd ==
    (call.op = "predict" /\ HasWeights /\ call.sequence = EndToEndInput) =>
       call.outcome = "ok" /\ call.ret = <<"B", "I">>

\* the scenario itself: 200 iterations, learning rate 0.5, regularization
\* 0.01, and predict has returned B, I
C20_Witness ==
    /\ call.op = "predict" /\ HasWeights
    /\ maxIterations = 200 /\ learningRate = 500 /\ regularization = 10
    /\ call.sequence = EndToEndInput
    /\ call.ret = <<"B", "I">>
    /\ weights.data[1] > 0 /\ weights.data[2] < 0

----------------------------------------------------------------------------
(* The segmenter (SegSpec).                                                *)

\* String.prototype.includes
Includes(message, part) ==
    \E i \in 1..(Len(message) - Len(part) + 1) :
       SubSeq(message, i, i + Len(part) - 1) = part

\* C21: segment on a segmenter on which no train or loadModel call has
\* completed throws an error whose message contains "not loaded", whatever
\* the text, the empty one included.
C21_SegmentFailsBeforeLoaded ==
    (call.op = "seg.segment" /\ ~succeeded)
        => (call.outcome = "error" /\ Includes(call.message, "not loaded"))

\* segment("") and segment(" ") have thrown on a segmenter that was never
\* trained or loaded
C21_Witness ==
    /\ call.op = "seg.segment" /\ ~succeeded
    /\ call.text \in {<<>>, <<SPACE>>}
    /\ call.outcome = "error"

\* Array.prototype.join(''): the syllables one after the other
Joined(syllables) == Flatten(syllables)

\* C22 (as amended): on a loaded segmenter segment returns; for a text with
\* a character that is not white space the returned syllables, put together
\* in order, are the normalized text, and for a text of white space only (or
\* the empty text) the result is the empty list.
C22_SegmentKeepsCharacters ==
    (call.op = "seg.segment" /\ isModelLoaded)
        => /\ call.outcome = "ok"
           /\ IF trim(call.text) = <<>>
              THEN call.syllables = <<>>
              ELSE Joined(call.syllables) = normalize(call.text)

\* segment has cut a text that holds a zero-width space into two syllables
\* or more
C22_Witness ==
    /\ call.op = "seg.segment" /\ isModelLoaded /\ call.outcome = "ok"
    /\ normalize(call.text) # call.text
    /\ Len(call.syllables) >= 2

\* C22 as stated: for every text, the syllables segment returns on a loaded
\* segmenter, put together, are the normalized text.
C22_AsStated ==
    (call.op = "seg.segment" /\ isModelLoaded)
        => (call.outcome = "ok" /\ Joined(call.syllables) = normalize(call.text))

----------------------------------------------------------------------------
(* The constructor on its own (ConstructSpec): every option omitted, 0 or  *)
(* a value.                                                                *)

ConstructOptionSets ==
    [learningRate : {Omitted, <<0>>, <<500>>},
     maxIterations : {Omitted, <<0>>, <<1>>, <<MaxIter>>},
     regularization : {Omitted, <<0>>, <<100>>},
     tolerance : {Omitted, <<0>>, <<10>>}]

ConstructInit == \E options \in ConstructOptionSets : Constructed(options)

ConstructNext == \E options \in ConstructOptionSets : Construct(options)

ConstructSpec == ConstructInit /\ [][ConstructNext]_vars

\* the value the claim gives a field: the one supplied, the default for an
\* option that is omitted
SuppliedOr(option, dflt) == IF option = Omitted THEN dflt ELSE option[1]

\* C23: a CRF constructed with options stores exactly the supplied value of
\* each of learningRate, maxIterations, regularization and tolerance, the
\* defaults only for the options omitted, and starts with weights = null,
\* empty vocabularies and numFeatures = numLabels = 0.
C23_ConstructorStoresOptions ==
    call.op = "new"
        => /\ learningRate = SuppliedOr(call.options.learningRate, DefaultLearningRate)
           /\ maxIterations = SuppliedOr(call.options.maxIterations, DefaultMaxIterations)
           /\ regularization = SuppliedOr(call.options.regularization, DefaultRegularization)
           /\ tolerance = SuppliedOr(call.options.tolerance, DefaultTolerance)
           /\ weights = Null /\ featureMap = EmptyMap /\ labelMap = EmptyMap
           /\ numFeatures = 0 /\ numLabels = 0

----------------------------------------------------------------------------
(* Forward-backward (TrainSpec).                                           *)

Abs(x) == IF x < 0 THEN -x ELSE x

Max(a, b) == IF a >= b THEN a ELSE b

\* the sum over the labels j of alpha[i][j] * beta[i][j], not yet divided by
\* SCALE
AlphaBeta(fb, i) ==
    SumSeq(Array([j \in 1..Len(fb.alpha[i]) |-> fb.alpha[i][j] * fb.beta[i][j]]))

\* What the rounding of the products in rows i+1..n of alpha and i..n-1 of
\* beta can take from either side: every product loses less than one unit,
\* and what a row loses is carried on times the sum of the other row.
RECURSIVE RoundingSlack(_, _)
RoundingSlack(fb, i) ==
    IF i >= Len(fb.alpha) THEN 0
    ELSE Len(fb.alpha[i]) * Max(SumSeq(fb.alpha[i]), SumSeq(fb.beta[i + 1]))
           + RoundingSlack(fb, i + 1)

\* C24: forward-backward is self-consistent.  With the weights a train call
\* has left, for every sequence of length n >= 1 and every position i, the
\* sum over the labels j of alpha[i][j] * beta[i][j] is Z, the sum of
\* alpha[n-1], up to the rounding of the products: the marginals of a
\* position sum to 1.
C24_ForwardBackwardConsistent ==
    (call.op = "train" /\ call.outcome = "ok")
        => \A sequence \in Sequences :
              Len(sequence) >= 1
                 => LET fb == _forwardBackward(This, sequence)
                    IN  /\ ~fb.threw
                        /\ fb.Z = SumSeq(fb.alpha[Len(sequence)])
                        /\ \A i \in 1..Len(sequence) :
                              Abs(AlphaBeta(fb, i) - SCALE * fb.Z) <= RoundingSlack(fb, i)

\* train has left weights under which the two labels score differently at
\* the last position of a sequence and beta of its first position is not 1
C24_Witness ==
    /\ call.op = "train" /\ call.outcome = "ok" /\ numLabels = 2
    /\ \E sequence \in Sequences :
          /\ Len(sequence) >= 2
          /\ LET fb == _forwardBackward(This, sequence)
             IN  /\ fb.alpha[Len(sequence)][1] # fb.alpha[Len(sequence)][2]
                 /\ fb.beta[1][1] # SCALE
                 /\ fb.alpha[1][1] # fb.alpha[1][2]

----------------------------------------------------------------------------
(* Transition scores (TrainSpec).                                          *)

LabelIds == 0..(numLabels - 1)

\* the ids the vocabulary gives to a feature string
IdsOf(feature) == { featureMap[i][2] : i \in { k \in 1..Len(featureMap) : featureMap[k][1] = feature } }

\* `TRANS_${from}_${to}` of two label ids
TransitionName(from, to) == "TRANS_" \o ToString(from) \o "_" \o ToString(to)

\* C25: transitionScore(from, to) is weights[f * numLabels + to], f the id of
\* the string TRANS_<from>_<to> in the feature vocabulary, and 0 when the
\* vocabulary does not hold that string; the weight is the one an input
\* feature of that name has for the label to.
C25_TransitionScoreIsFeatureWeight ==
    TrainedShape
        => \A from \in LabelIds, to \in LabelIds :
              LET score == _computeTransitionScore(This, <<from>>, <<to>>)
                  ids == IdsOf(TransitionName(from, to))
              IN  /\ ids = {} => score = Num(0)
                  /\ \A f \in ids :
                        /\ score = Num(weights.data[f * numLabels + to + 1])
                        /\ score = _computeScore(This, <<TransitionName(from, to)>>, <<to>>)

\* a model, loaded or trained, in which the transition from label 0 to label
\* 1 has a score other than 0 and the other transitions score 0
C25_Witness ==
    /\ TrainedShape /\ numLabels = 2
    /\ call.op \in {"train", "loadModel"} /\ call.outcome = "ok"
    /\ IdsOf(TransitionName(0, 1)) # {}
    /\ _computeTransitionScore(This, <<0>>, <<1>>) \notin {Num(0), NaN}
    /\ _computeTransitionScore(This, <<1>>, <<0>>) = Num(0)

\* the strings of the form TRANS_<i>_<j>, i and j label ids of the model
TransitionNames == { TransitionName(from, to) : from \in LabelIds, to \in LabelIds }

\* the scores _computeScore gives the labels 0..numLabels-1 at a position
EmissionScores(features) ==
    [j \in 1..numLabels |-> _computeScore(This, features, <<j - 1>>)]

\* C26: after train on a corpus none of whose feature strings has the form
\* TRANS_<i>_<j>, the vocabulary holds no such string and holds only strings
\* of the corpus, transitionScore is 0 for every pair of labels, and (the
\* corpus having a label) the label predict returns at a position is the
\* one of lowest id among those with the highest emission score at that
\* position, whatever the other positions are.
C26_NoTransitionAfterTraining ==
    (call.op = "train" /\ call.outcome = "ok"
        /\ \A k \in 1..Len(FeatureItems(TrainedCorpus)) :
              FeatureItems(TrainedCorpus)[k] \notin TransitionNames)
        => /\ \A k \in 1..Len(featureMap) :
                 /\ featureMap[k][1] \notin TransitionNames
                 /\ \E m \in 1..Len(FeatureItems(TrainedCorpus)) :
                       FeatureItems(TrainedCorpus)[m] = featureMap[k][1]
           /\ \A from \in LabelIds, to \in LabelIds :
                 _computeTransitionScore(This, <<from>>, <<to>>) = Num(0)
           /\ numLabels >= 1
                 => \A sequence \in Sequences :
                       LET r == predict(This, sequence)
                       IN  /\ r.outcome = "ok"
                           /\ Len(r.ret) = Len(sequence)
                           /\ \A i \in 1..Len(sequence) :
                                 r.ret[i] = LabelName(This,
                                     << LeastArgMax(EmissionScores(sequence[i])) >>)

\* train on the end-to-end example has left a model that labels F1 with B
\* and a position with F2 with I, whichever comes first
C26_Witness ==
    /\ call.op = "train" /\ call.outcome = "ok" /\ numLabels = 2
    /\ \A k \in 1..Len(FeatureItems(TrainedCorpus)) :
          FeatureItems(TrainedCorpus)[k] \notin TransitionNames
    /\ predict(This, << <<"F1">>, <<"F2", "F3">> >>).ret = <<"B", "I">>
    /\ predict(This, << <<"F2", "F3">>, <<"F1">> >>).ret = <<"I", "B">>

----------------------------------------------------------------------------
(* Retraining (TrainSpec).                                                 *)

\* a CRF that has never been trained or loaded, with the hyperparameters of
\* this one
FreshWithSameHyperparameters ==
    [NewCRF(NoOptions) EXCEPT !.learningRate = learningRate,
                              !.maxIterations = maxIterations,
                              !.regularization = regularization,
                              !.tolerance = tolerance]

\* C27: the model a train call leaves (vocabularies, counts, weights) is the
\* one the same call leaves on a CRF with the same hyperparameters that was
\* never trained or loaded, and so are its outcome and its log-likelihoods:
\* nothing of an earlier vocabulary or weight array survives.
C27_RetrainStartsAfresh ==
    call.op = "train"
        => LET afresh == train(FreshWithSameHyperparameters,
                               TrainedCorpus.sequences, TrainedCorpus.labels)
           IN  /\ This = afresh.self
               /\ call.outcome = afresh.outcome
               /\ call.logLikelihoods = afresh.logLikelihoods

\* a train call has completed on a CRF that had weights already, and has
\* left a model of two labels with a weight other than 0
C27_Witness ==
    /\ call.op = "train" /\ call.outcome = "ok" /\ call.hadWeights
    /\ numLabels = 2
    /\ \E j \in 1..Len(weights.data) : weights.data[j] # 0

----------------------------------------------------------------------------
(* The number of weight updates of a train call (TrainSpec).               *)

Min(a, b) == IF a <= b THEN a ELSE b

\* the number of iterations of the last train call that reached the update
\* of lines 305-307: line 309 logs the log-likelihood right after it
Updates == Len(call.logLikelihoods)

\* C28 (as amended): a train call that returns has applied k weight updates,
\* min(2, maxIterations) <= k <= maxIterations; when it stopped before the
\* cap, iteration k found the log-likelihood within tolerance of that of
\* iteration k - 1 and the weights returned are those after the update of
\* iteration k.  A train call that throws has applied none.
C28_UpdatesBeforeConvergenceTest ==
    call.op = "train" =>
        IF call.outcome = "ok"
        THEN /\ Min(2, maxIterations) <= Updates /\ Updates <= maxIterations
             /\ weights = AfterIterations(IterationStart, Updates).weights
             /\ Updates < maxIterations
                   => WithinTolerance(call.logLikelihoods[Updates],
                                      call.logLikelihoods[Updates - 1])
        ELSE Updates = 0 /\ weights = IterationStart.weights

\* train has stopped before the cap at its second iteration, and the update
\* of that iteration has changed the weights
C28_Witness ==
    /\ call.op = "train" /\ call.outcome = "ok"
    /\ Updates = 2 /\ maxIterations > 2
    /\ WithinTolerance(call.logLikelihoods[2], call.logLikelihoods[1])
    /\ weights = AfterIterations(IterationStart, 2).weights
    /\ weights # AfterIterations(IterationStart, 1).weights

\* C28 as stated: the number k of weight updates of a train call always
\* satisfies min(2, maxIterations) <= k <= maxIterations.
C28_AsStated ==
    call.op = "train"
        => (Min(2, maxIterations) <= Updates /\ Updates <= maxIterations)

----------------------------------------------------------------------------
(* isModelLoaded (SegSpec).                                                *)

\* C29: over the calls of train, loadModel, segment, saveModel and evaluate
\* on a segmenter, isModelLoaded is false after construction, becomes true
\* only in a train or loadModel call that completes without error, never
\* goes back to false on the same segmenter, and while it is true the CRF
\* has weights: neither segment nor evaluate ends in the error of the CRF,
\* 'Model not trained yet'.
C29_LoadedOnlyByTrainOrLoad ==
    [][ /\ call'.op = "new" => ~isModelLoaded'
        /\ (~isModelLoaded /\ isModelLoaded')
              => (call'.op \in {"seg.train", "seg.loadModel"} /\ call'.outcome = "ok")
        /\ (isModelLoaded /\ call'.op # "new") => isModelLoaded'
        /\ isModelLoaded' => weights'.kind # "null"
        /\ call'.op \in {"seg.segment", "seg.evaluate"} => call'.message # NotTrainedMessage
      ]_vars

\* on a loaded segmenter a loadModel call has failed, and the segmenter is
\* still loaded and has weights
C29_Witness ==
    /\ isModelLoaded /\ HasWeights
    /\ call.op = "seg.loadModel" /\ call.outcome = "error" /\ call.hadWeights

----------------------------------------------------------------------------
(* The BIO labels (BioSpec): _syllablesToLabels on the characters of a     *)
(* text and a list of syllables that make up the text, and                 *)
(* _labelsToSyllables on its result.                                       *)

\* longest text given to _syllablesToLabels, in code units
MaxTextLen == 3

\* a consonant, another one, and a combining mark
BioAlphabet == {KO_KAI, NO_NU, SARA_I}

BioTexts == UNION { [1..n -> BioAlphabet] : n \in 0..MaxTextLen }

\* the text from position from on, cut after every position of cuts
RECURSIVE SplitAt(_, _, _)
SplitAt(text, cuts, from) ==
    IF from > Len(text) THEN <<>>
    ELSE LET later == { c \in cuts : c >= from }
             end == IF later = {} THEN Len(text)
                    ELSE CHOOSE c \in later : \A d \in later : c <= d
         IN  << SubSeq(text, from, end) >> \o SplitAt(text, cuts, end + 1)

\* labels = this._syllablesToLabels(this.thaiUtils.splitToCharacters(text),
\* syllables), and this._labelsToSyllables of the same characters and the
\* labels when that has returned
SyllablesToLabels(text, syllables) ==
    \E chars \in { splitToCharacters(text) } :
       \E r \in { _syllablesToLabels(chars, syllables) } :
          /\ call' = [NoCall EXCEPT
                         !.op = "bio",
                         !.outcome = IF r.threw THEN "error" ELSE "ok",
                         !.hadWeights = HasWeights,
                         !.text = text, !.given = syllables, !.ret = r.labels,
                         !.syllables = IF r.threw THEN <<>>
                                       ELSE _labelsToSyllables(chars, r.labels, 1, <<>>, <<>>)]
          /\ UNCHANGED <<crfVars, isModelLoaded, saved, file, succeeded>>

BioNext ==
    \E text \in BioTexts :
       \E cuts \in SUBSET (1..(Len(text) - 1)) :
          SyllablesToLabels(text, SplitAt(text, cuts, 1))

BioSpec == Init /\ [][BioNext]_vars

\* the number of code units before character i of chars
RECURSIVE Offset(_, _)
Offset(chars, i) == IF i = 1 THEN 0 ELSE Offset(chars, i - 1) + Len(chars[i - 1])

\* C30: for the characters of a text and non-empty syllables that make up
\* the text, when _syllablesToLabels returns, there is one label for every
\* character, the first character of every syllable has B and every other
\* character I, and _labelsToSyllables gives the syllables back.
C30_BioRoundTrip ==
    (call.op = "bio" /\ call.outcome = "ok"
        /\ Joined(call.given) = call.text
        /\ \A k \in 1..Len(call.given) : call.given[k] # <<>>)
        => LET chars == splitToCharacters(call.text)
               starts == { Offset(call.given, k) : k \in 1..Len(call.given) }
           IN  /\ Len(call.ret) = Len(chars)
               /\ \A s \in starts : \E i \in 1..Len(chars) : Offset(chars, i) = s
               /\ \A i \in 1..Len(chars) :
                     call.ret[i] = IF Offset(chars, i) \in starts THEN "B" ELSE "I"
               /\ call.syllables = call.given

\* two syllables, the first of a consonant with its combining mark, have
\* been labelled B, B and put together again
C30_Witness ==
    /\ call.op = "bio" /\ call.outcome = "ok"
    /\ Len(call.given) = 2 /\ Len(call.given[1]) = 2
    /\ Len(splitToCharacters(call.text)) = 2
    /\ call.ret = <<"B", "B">>
    /\ call.syllables = call.given

====
